---- MODULE Spec2Model ----
(***************************************************************************)
(* A model of the attendance-record lifecycle of the myAMS backend:        *)
(* markAttendance and editAttendanceRecord of teacherController.js, the    *)
(* AttendanceRecord, ClassSection and Student model methods they call, and *)
(* the admin operations that change a class section's roster, a student's  *)
(* enrolments and a class section's active flag.                           *)
(*                                                                         *)
(* Encodings.  A time string "HH:MM" is the pair <<h, m>>; an absent or    *)
(* empty string is <<>>.  A date string "DD-MM-YYYY" is <<d>> with d the   *)
(* day it names (d < 0: a string date-fns cannot parse), <<>> when absent. *)
(* The clock `now` counts days.  attendancePercentage is kept in           *)
(* hundredths of a percent (5000 is 50.00).                                *)
(***************************************************************************)
EXTENDS Integers, Sequences, FiniteSets, TLC

(***************************************************************************)
(* Program constants (config/constants.js).                                *)
(***************************************************************************)
SESSION_DURATION == 45
MAX_SESSIONS_PER_CLASS == 10
PRESENT == "present"
ABSENT == "absent"
ATTENDANCE_STATUS == {PRESENT, ABSENT}

(***************************************************************************)
(* Bounds of the model.                                                    *)
(***************************************************************************)
MaxClock == 1
MaxMarks == 2
MaxSlots == 3
MaxEntries == 2
MaxSessions == 3
MaxInflight == 2
MaxSections == 3
MaxBulk == 2

(***************************************************************************)
(* The fixed population: two teacher accounts with their Teacher profiles, *)
(* an admin account (no Teacher profile), two Student profiles, one        *)
(* subject and one class section taught by t1.                             *)
(***************************************************************************)
TeacherProfiles == {[id |-> "t1", userId |-> "ut1"], [id |-> "t2", userId |-> "ut2"]}
Users == {"ut1", "ut2", "uadmin"}
StudentIds == {"s1", "s2"}
Semester == 3
SubjectIds == {"sub1"}
SectionIds == {"c1"}

\* The Subject collection (Subject.model.js): not changed by any operation here.
Subjects == [sub \in SubjectIds |-> [semester |-> Semester, branch |-> "CSE"]]

NoTime == <<>>
NoDate == <<>>
NoUser == ""
NoInstant == -1

\* classSections, students, attendanceRecords: the collections; now: the clock;
\* response: the response in flight; probe: the sessions array under validation
\* (SpecSessions only); inflight: the handlers suspended at an await, each
\* with what it has read and prepared (SpecConcurrent only).
\* users, teachers: the User accounts and the Teacher profiles.
VARIABLES classSections, students, attendanceRecords, now, response, probe, inflight,
          users, teachers

vars == <<classSections, students, attendanceRecords, now, response, probe, inflight,
          users, teachers>>

(***************************************************************************)
(* Helpers on sequences.                                                   *)
(***************************************************************************)
SeqsUpTo(S, n) == UNION {[1..k -> S] : k \in 0..n}

(***************************************************************************)
(* Teacher.findOne({ userId }): the Teacher profile ids of a user account  *)
(* (empty when the account has no profile).                                *)
(***************************************************************************)
TeacherFindOne(userId) == {t \in DOMAIN teachers : teachers[t].userId = userId}

(***************************************************************************)
(* Times.                                                                  *)
(***************************************************************************)
timeRegexTest(t) == Len(t) = 2 /\ t[1] \in 0..23 /\ t[2] \in 0..59

toMinutes(t) == t[1] * 60 + t[2]

\* Date.setMinutes(getMinutes() + d) followed by getHours()/getMinutes():
\* the overflow carries into the hour, and past 23 into the next day.
setMinutesPlus(t, d) ==
  LET total == t[1] * 60 + t[2] + d
  IN  <<(total \div 60) % 24, total % 60>>

RECURSIVE sessionBreakdownLoop(_, _, _)
sessionBreakdownLoop(currentTime, i, numSessions) ==
  IF i > numSessions THEN <<>>
  ELSE LET sessionEnd == setMinutesPlus(currentTime, SESSION_DURATION)
       IN  <<[sessionNumber |-> i, startTime |-> currentTime, endTime |-> sessionEnd]>>
             \o sessionBreakdownLoop(sessionEnd, i + 1, numSessions)

generateSessionBreakdown(startTime, endTime, numSessions) ==
  sessionBreakdownLoop(startTime, 1, numSessions)

(***************************************************************************)
(* Dates.                                                                  *)
(***************************************************************************)
\* A parse that takes every string for a date.
parseDateThrowsNever(date) == FALSE

parseDateThrows(date) == date[1] < 0

parseDate(date) == date[1]

getStartOfDay(instant) == instant

\* The last instant of the day: on a clock that counts days, the day itself.
getEndOfDay(instant) == instant

(***************************************************************************)
(* Per-student validation of markAttendance.                               *)
(***************************************************************************)
RECURSIVE sessionLoop(_, _, _)
sessionLoop(sessions, k, numSessions) ==
  IF k > Len(sessions) THEN "ok"
  ELSE IF sessions[k].sessionNumber < 1 \/ sessions[k].sessionNumber > numSessions
       THEN "InvalidSessionNumber"
  ELSE IF sessions[k].status \notin ATTENDANCE_STATUS
       THEN "InvalidStatus"
  ELSE sessionLoop(sessions, k + 1, numSessions)

hasDuplicateSessionNumbers(sessions) ==
  Len(sessions) # Cardinality({sessions[k].sessionNumber : k \in 1..Len(sessions)})

missingSessions(sessions, numSessions) ==
  {num \in 1..numSessions : num \notin {sessions[k].sessionNumber : k \in 1..Len(sessions)}}

\* validateSessions comparing the session numbers as a set only.
validateSessionsAsSet(sessions, numSessions) ==
  IF sessionLoop(sessions, 1, numSessions) # "ok" THEN sessionLoop(sessions, 1, numSessions)
  ELSE IF missingSessions(sessions, numSessions) # {} THEN "MissingSession"
  ELSE "ok"

\* validateSessions without the duplicate and the missing-number checks.
validateSessionsLengthAndRange(sessions, numSessions) ==
  IF Len(sessions) # numSessions THEN "WrongSessionCount"
  ELSE sessionLoop(sessions, 1, numSessions)

validateSessions(sessions, numSessions) ==
  IF Len(sessions) # numSessions THEN "WrongSessionCount"
  ELSE LET loop == sessionLoop(sessions, 1, numSessions)
       IN  IF loop # "ok" THEN loop
           ELSE IF hasDuplicateSessionNumbers(sessions) THEN "DuplicateSession"
           ELSE IF missingSessions(sessions, numSessions) # {} THEN "MissingSession"
           ELSE "ok"

countStatus(sessions, status) ==
  Cardinality({k \in 1..Len(sessions) : sessions[k].status = status})

\* The percentage cut after its second decimal.
toFixed2PercentageTruncating(presentCount, numSessions) ==
  (10000 * presentCount) \div numSessions

\* parseFloat(((present / numSessions) * 100).toFixed(2)), in hundredths
toFixed2Percentage(presentCount, numSessions) ==
  (2 * 10000 * presentCount + numSessions) \div (2 * numSessions)

\* isEnrolled looking at whether the student has an enrolment list at all.
isEnrolledInAny(student, subjectId) == Len(student.enrolledSubjects) >= 0

isEnrolled(student, subjectId) ==
  \E i \in 1..Len(student.enrolledSubjects) : student.enrolledSubjects[i].subjectId = subjectId

isInSection(classSection, studentId) ==
  \E i \in 1..Len(classSection.students) : classSection.students[i].studentId = studentId

validateStudentAttendance(classSection, numSessions, studentAttendance) ==
  IF studentAttendance.studentId \notin DOMAIN students THEN "StudentNotFound"
  ELSE IF ~isEnrolled(students[studentAttendance.studentId], classSection.subjectId)
       THEN "NotEnrolled"
  ELSE IF ~isInSection(classSection, studentAttendance.studentId) THEN "NotInSection"
  ELSE validateSessions(studentAttendance.sessions, numSessions)

validatedEntry(numSessions, studentAttendance) ==
  LET presentCount == countStatus(studentAttendance.sessions, PRESENT)
  IN  [studentId |-> studentAttendance.studentId,
       sessions |-> studentAttendance.sessions,
       totalPresent |-> presentCount,
       totalAbsent |-> Len(studentAttendance.sessions) - presentCount,
       attendancePercentage |-> toFixed2Percentage(presentCount, numSessions)]

\* The loop returning after its first iteration.
attendanceLoopFirstOnly(classSection, numSessions, attendance, k) ==
  IF k > Len(attendance) THEN "ok"
  ELSE validateStudentAttendance(classSection, numSessions, attendance[k])

RECURSIVE attendanceLoop(_, _, _, _)
attendanceLoop(classSection, numSessions, attendance, k) ==
  IF k > Len(attendance) THEN "ok"
  ELSE LET one == validateStudentAttendance(classSection, numSessions, attendance[k])
       IN  IF one # "ok" THEN one
           ELSE attendanceLoop(classSection, numSessions, attendance, k + 1)

(***************************************************************************)
(* Responses.  `response` is the HTTP response of the request handled by   *)
(* the step that led to the current state (NoResponse after a step that is *)
(* not a request): the operation, the acting user account, the recordId    *)
(* the request created or named, the status code and the kind of outcome.  *)
(***************************************************************************)
NoTarget == <<>>

NoResponse == [op |-> "none", user |-> NoUser, target |-> NoTarget, status |-> 0, kind |-> "none"]

Respond(op, user, target, status, kind) ==
  [op |-> op, user |-> user, target |-> target, status |-> status, kind |-> kind]

FindRecord(recordId) == {r \in attendanceRecords : r.recordId = recordId}

(***************************************************************************)
(* markAttendance.                                                         *)
(***************************************************************************)
generateRecordId(attendanceDate, classSection, suffix) ==
  <<attendanceDate, classSection.subjectId, classSection.semester, classSection.sectionName, suffix>>

\* The record handed to AttendanceRecord.create.
newAttendanceRecordFinalized(teacherId, classSectionId, attendanceDate, startTime, endTime, numSessions, attendance, suffix) ==
  [recordId |-> <<attendanceDate, classSections[classSectionId].subjectId,
                  classSections[classSectionId].semester,
                  classSections[classSectionId].sectionName, suffix>>,
   subjectId |-> classSections[classSectionId].subjectId,
   classSectionId |-> classSectionId,
   teacherId |-> teacherId,
   date |-> attendanceDate,
   startTime |-> startTime,
   endTime |-> endTime,
   semester |-> classSections[classSectionId].semester,
   numSessions |-> numSessions,
   sessionBreakdown |-> generateSessionBreakdown(startTime, endTime, numSessions),
   attendance |-> [k \in 1..Len(attendance) |-> validatedEntry(numSessions, attendance[k])],
   markedBy |-> teacherId,
   markedAt |-> now,
   lastModifiedBy |-> NoUser,
   lastModifiedAt |-> NoInstant,
   isFinalized |-> TRUE]

newAttendanceRecord(teacherId, classSectionId, attendanceDate, startTime, endTime, numSessions, attendance, suffix) ==
  LET classSection == classSections[classSectionId]
  IN  [recordId |-> generateRecordId(attendanceDate, classSection, suffix),
       subjectId |-> classSection.subjectId,
       classSectionId |-> classSectionId,
       teacherId |-> teacherId,
       date |-> attendanceDate,
       startTime |-> startTime,
       endTime |-> endTime,
       semester |-> classSection.semester,
       numSessions |-> numSessions,
       sessionBreakdown |-> generateSessionBreakdown(startTime, endTime, numSessions),
       attendance |-> [k \in 1..Len(attendance) |-> validatedEntry(numSessions, attendance[k])],
       markedBy |-> teacherId,
       markedAt |-> now,
       lastModifiedBy |-> NoUser,
       lastModifiedAt |-> NoInstant,
       isFinalized |-> FALSE]

\* The collection without its unique index on recordId.
uniqueIndexViolatedNever(recordId) == FALSE

\* AttendanceRecord.create against the unique index on recordId: the insert
\* fails with the duplicate-key error 11000, which errorHandler answers 409.
uniqueIndexViolated(recordId) == FindRecord(recordId) # {}

\* The assignment check passing for every teacher.
isAssignedAlways(classSection, user) == TeacherFindOne(user) # {}

\* classSection.teacherId.toString() === teacher._id.toString(), teacher the
\* profile of the acting user.
isAssigned(classSection, user) == classSection.teacherId \in TeacherFindOne(user)

\* The checks of markAttendance in the order of the code; the first that fails
\* decides the response.  <<status, kind>>.
\* The class never found too short for its sessions.
durationTooShortNever(startTime, endTime, numSessions) == FALSE

\* durationMinutes < expectedDuration
durationTooShort(startTime, endTime, numSessions) ==
  toMinutes(endTime) - toMinutes(startTime) < numSessions * SESSION_DURATION

markAttendanceChecks(user, classSectionId, date, startTime, endTime, numSessions, attendance, suffix) ==
  IF classSectionId = "" \/ date = NoDate \/ startTime = NoTime \/ endTime = NoTime
     \/ numSessions = 0
    THEN <<400, "MissingFields">>
  ELSE IF numSessions < 1 \/ numSessions > MAX_SESSIONS_PER_CLASS
    THEN <<400, "InvalidNumSessions">>
  ELSE IF ~timeRegexTest(startTime) THEN <<400, "InvalidStartTime">>
  ELSE IF ~timeRegexTest(endTime) THEN <<400, "InvalidEndTime">>
  ELSE IF toMinutes(endTime) <= toMinutes(startTime) THEN <<400, "EndNotAfterStart">>
  ELSE IF durationTooShort(startTime, endTime, numSessions) THEN <<400, "DurationTooShort">>
  ELSE IF Len(attendance) = 0 THEN <<400, "EmptyAttendance">>
  ELSE IF TeacherFindOne(user) = {} THEN <<404, "TeacherProfileNotFound">>
  ELSE IF classSectionId \notin DOMAIN classSections THEN <<404, "ClassSectionNotFound">>
  ELSE IF ~classSections[classSectionId].isActive THEN <<400, "SectionInactive">>
  ELSE IF ~isAssigned(classSections[classSectionId], user) THEN <<403, "NotAssigned">>
  ELSE IF parseDateThrows(date) THEN <<400, "InvalidDate">>
  ELSE IF parseDate(date) > getStartOfDay(now) THEN <<400, "FutureDate">>
  ELSE LET loop == attendanceLoop(classSections[classSectionId], numSessions, attendance, 1)
       IN  IF loop # "ok" THEN <<400, loop>>
           ELSE IF uniqueIndexViolated(generateRecordId(parseDate(date),
                                                        classSections[classSectionId], suffix))
             THEN <<409, "DuplicateRecord">>
           ELSE <<201, "Created">>

markAttendance(user, classSectionId, date, startTime, endTime, numSessions, attendance, suffix) ==
  LET res == markAttendanceChecks(user, classSectionId, date, startTime, endTime,
                                  numSessions, attendance, suffix)
  IN  IF res[2] = "Created"
      THEN LET teacherId == CHOOSE t \in TeacherFindOne(user) : TRUE
               rec == newAttendanceRecord(teacherId, classSectionId, parseDate(date),
                                          startTime, endTime, numSessions, attendance, suffix)
           IN  /\ attendanceRecords' = attendanceRecords \cup {rec}
               /\ response' = Respond("markAttendance", user, rec.recordId, res[1], res[2])
               /\ UNCHANGED <<classSections, students, now, probe, inflight, users, teachers>>
      ELSE /\ response' = Respond("markAttendance", user, NoTarget, res[1], res[2])
           /\ UNCHANGED <<classSections, students, attendanceRecords, now, probe, inflight, users, teachers>>

(***************************************************************************)
(* AttendanceRecord model methods (AttendanceRecord.model.js).  A method   *)
(* that throws yields [kind |-> <the error>, record |-> <the document as   *)
(* it was>]: the caller returns without saving.                            *)
(***************************************************************************)
\* this.attendance.find(att => att.studentId === studentId): index of the first match, 0 if none
findStudentAttendance(record, studentId) ==
  IF \E i \in 1..Len(record.attendance) : record.attendance[i].studentId = studentId
  THEN CHOOSE i \in 1..Len(record.attendance) :
         /\ record.attendance[i].studentId = studentId
         /\ \A j \in 1..(i - 1) : record.attendance[j].studentId # studentId
  ELSE 0

\* studentAttendance.sessions.find(s => s.sessionNumber === n): index of the first match, 0 if none
findSession(sessions, sessionNumber) ==
  IF \E i \in 1..Len(sessions) : sessions[i].sessionNumber = sessionNumber
  THEN CHOOSE i \in 1..Len(sessions) :
         /\ sessions[i].sessionNumber = sessionNumber
         /\ \A j \in 1..(i - 1) : sessions[j].sessionNumber # sessionNumber
  ELSE 0

calculateStudentTotalsThrows(record, studentId) ==
  LET i == findStudentAttendance(record, studentId)
  IN  /\ i # 0
      /\ countStatus(record.attendance[i].sessions, PRESENT)
           + countStatus(record.attendance[i].sessions, ABSENT) # record.numSessions

\* calculateStudentTotals leaving the stored totals as they are.
calculateStudentTotalsStale(record, studentId) == record

calculateStudentTotals(record, studentId) ==
  LET i == findStudentAttendance(record, studentId)
  IN  IF i = 0 THEN record
      ELSE LET presentCount == countStatus(record.attendance[i].sessions, PRESENT)
               absentCount == countStatus(record.attendance[i].sessions, ABSENT)
           IN  [record EXCEPT
                  !.attendance[i].totalPresent = presentCount,
                  !.attendance[i].totalAbsent = absentCount,
                  !.attendance[i].attendancePercentage =
                      toFixed2Percentage(presentCount, record.numSessions)]

\* updateWithAudit stamping the marking fields as well.
updateWithAuditRemarking(record, userId) ==
  [record EXCEPT !.lastModifiedBy = userId, !.lastModifiedAt = now, !.markedAt = now]

updateWithAudit(record, userId) ==
  [record EXCEPT !.lastModifiedBy = userId, !.lastModifiedAt = now]

\* The iteration taking any status that is given.
sessionUpdateCheckAnyStatus(sessionUpdate) ==
  IF sessionUpdate.sessionNumber = 0 \/ sessionUpdate.status = "" THEN "InvalidSessionUpdate"
  ELSE "ok"

\* One iteration of sessionsData.forEach: "ok" or the error thrown.
sessionUpdateCheck(sessionUpdate) ==
  IF sessionUpdate.sessionNumber = 0 \/ sessionUpdate.status = "" THEN "InvalidSessionUpdate"
  ELSE IF sessionUpdate.status \notin ATTENDANCE_STATUS THEN "InvalidStatus"
  ELSE "ok"

\* The loop throwing at a session number the student's sessions do not have.
RECURSIVE sessionUpdatesLoopStrict(_, _, _)
sessionUpdatesLoopStrict(sessions, sessionsData, k) ==
  IF k > Len(sessionsData) THEN [kind |-> "ok", sessions |-> sessions]
  ELSE IF sessionUpdateCheck(sessionsData[k]) # "ok"
       THEN [kind |-> sessionUpdateCheck(sessionsData[k]), sessions |-> sessions]
  ELSE LET j == findSession(sessions, sessionsData[k].sessionNumber)
       IN  IF j = 0 THEN [kind |-> "SessionNotFound", sessions |-> sessions]
           ELSE sessionUpdatesLoopStrict([sessions EXCEPT ![j].status = sessionsData[k].status],
                                         sessionsData, k + 1)

RECURSIVE sessionUpdatesLoop(_, _, _)
sessionUpdatesLoop(sessions, sessionsData, k) ==
  IF k > Len(sessionsData) THEN [kind |-> "ok", sessions |-> sessions]
  ELSE IF sessionUpdateCheck(sessionsData[k]) # "ok"
       THEN [kind |-> sessionUpdateCheck(sessionsData[k]), sessions |-> sessions]
  ELSE LET j == findSession(sessions, sessionsData[k].sessionNumber)
       IN  sessionUpdatesLoop(
             IF j # 0 THEN [sessions EXCEPT ![j].status = sessionsData[k].status] ELSE sessions,
             sessionsData, k + 1)

\* updateStudentAllSessions adding an entry for a student the record lacks.
updateStudentAllSessionsUpsert(record, studentId, sessionsData, modifiedBy) ==
  LET i == findStudentAttendance(record, studentId)
  IN  IF i = 0
      THEN [kind |-> "ok",
            record |-> updateWithAudit(
              [record EXCEPT !.attendance =
                 Append(@, [studentId |-> studentId, sessions |-> sessionsData,
                            totalPresent |-> 0, totalAbsent |-> 0,
                            attendancePercentage |-> 0])], modifiedBy)]
      ELSE IF Len(sessionsData) = 0 THEN [kind |-> "EmptySessionsData", record |-> record]
      ELSE LET upd == sessionUpdatesLoop(record.attendance[i].sessions, sessionsData, 1)
               updated == [record EXCEPT !.attendance[i].sessions = upd.sessions]
           IN  IF upd.kind # "ok" THEN [kind |-> upd.kind, record |-> record]
               ELSE [kind |-> "ok",
                     record |-> updateWithAudit(calculateStudentTotals(updated, studentId),
                                                modifiedBy)]

updateStudentAllSessions(record, studentId, sessionsData, modifiedBy) ==
  LET i == findStudentAttendance(record, studentId)
  IN  IF i = 0 THEN [kind |-> "StudentNotInRecord", record |-> record]
      ELSE IF Len(sessionsData) = 0 THEN [kind |-> "EmptySessionsData", record |-> record]
      ELSE LET upd == sessionUpdatesLoop(record.attendance[i].sessions, sessionsData, 1)
               updated == [record EXCEPT !.attendance[i].sessions = upd.sessions]
           IN  IF upd.kind # "ok" THEN [kind |-> upd.kind, record |-> record]
               ELSE IF calculateStudentTotalsThrows(updated, studentId)
                    THEN [kind |-> "InconsistentTotals", record |-> record]
               ELSE [kind |-> "ok",
                     record |-> updateWithAudit(calculateStudentTotals(updated, studentId),
                                                modifiedBy)]

RECURSIVE updateAttendanceLoop(_, _, _, _)
updateAttendanceLoop(record, newAttendanceData, k, modifiedBy) ==
  IF k > Len(newAttendanceData) THEN [kind |-> "ok", record |-> record]
  ELSE IF newAttendanceData[k].studentId = ""
       THEN [kind |-> "InvalidAttendanceObject", record |-> record]
  ELSE LET one == updateStudentAllSessions(record, newAttendanceData[k].studentId,
                                           newAttendanceData[k].sessions, modifiedBy)
       IN  IF one.kind # "ok" THEN one
           ELSE updateAttendanceLoop(one.record, newAttendanceData, k + 1, modifiedBy)

updateAttendance(record, newAttendanceData, modifiedBy) ==
  updateAttendanceLoop(record, newAttendanceData, 1, modifiedBy)

(***************************************************************************)
(* editAttendanceRecord.  A patch is                                       *)
(* [attendance, startTime, endTime, isFinalized], isFinalized one of       *)
(* "absent", "true", "false".                                              *)
(***************************************************************************)
\* The edit without the regeneration of the session breakdown.
editedRecordStaleBreakdown(record, user, patch) ==
  LET r1 == updateAttendance(record, patch.attendance, user).record
      r2 == IF patch.startTime # NoTime THEN [r1 EXCEPT !.startTime = patch.startTime] ELSE r1
      r3 == IF patch.endTime # NoTime THEN [r2 EXCEPT !.endTime = patch.endTime] ELSE r2
      r5 == IF patch.isFinalized = "true" THEN [r3 EXCEPT !.isFinalized = TRUE] ELSE r3
  IN  [r5 EXCEPT !.lastModifiedAt = now]

\* The document as the handler leaves it before save().
editedRecord(record, user, patch) ==
  LET r1 == updateAttendance(record, patch.attendance, user).record
      r2 == IF patch.startTime # NoTime THEN [r1 EXCEPT !.startTime = patch.startTime] ELSE r1
      r3 == IF patch.endTime # NoTime THEN [r2 EXCEPT !.endTime = patch.endTime] ELSE r2
      r4 == IF patch.startTime # NoTime \/ patch.endTime # NoTime
            THEN [r3 EXCEPT !.sessionBreakdown =
                    generateSessionBreakdown(r3.startTime, r3.endTime, r3.numSessions)]
            ELSE r3
      r5 == IF patch.isFinalized = "true" THEN [r4 EXCEPT !.isFinalized = TRUE] ELSE r4
  IN  [r5 EXCEPT !.lastModifiedAt = now]

\* The finalized check comparing against a value isFinalized never has.
isFinalizedCheckNever(record) == FALSE

isFinalizedCheck(record) == record.isFinalized

\* The ownership check passing for every teacher.
ownsRecordAnyTeacher(record, user) == TeacherFindOne(user) # {}

ownsRecord(record, user) == record.teacherId \in TeacherFindOne(user)

editAttendanceRecordChecks(user, recordId, patch) ==
  IF TeacherFindOne(user) = {} THEN <<404, "TeacherProfileNotFound">>
  ELSE IF FindRecord(recordId) = {} THEN <<404, "RecordNotFound">>
  ELSE LET record == CHOOSE r \in FindRecord(recordId) : TRUE
       IN  IF ~ownsRecord(record, user) THEN <<403, "NotRecordOwner">>
           ELSE IF isFinalizedCheck(record) THEN <<400, "AlreadyFinalized">>
           ELSE IF patch.startTime # NoTime /\ ~timeRegexTest(patch.startTime)
             THEN <<400, "InvalidStartTime">>
           ELSE IF patch.endTime # NoTime /\ ~timeRegexTest(patch.endTime)
             THEN <<400, "InvalidEndTime">>
           ELSE LET updated == updateAttendance(record, patch.attendance, user)
                IN  IF updated.kind # "ok" THEN <<400, updated.kind>>
                    ELSE <<200, "Updated">>

\* The handler saving the document also when updateAttendance threw.
editAttendanceRecordSavingPartial(user, recordId, patch) ==
  LET res == editAttendanceRecordChecks(user, recordId, patch)
  IN  /\ response' = Respond("editAttendanceRecord", user, recordId, res[1], res[2])
      /\ IF res[2] = "Updated"
         THEN LET record == CHOOSE r \in FindRecord(recordId) : TRUE
              IN  attendanceRecords' =
                    (attendanceRecords \ {record}) \cup {editedRecord(record, user, patch)}
         ELSE IF res[1] = 400 /\ res[2] \notin {"AlreadyFinalized", "InvalidStartTime", "InvalidEndTime"}
         THEN LET record == CHOOSE r \in FindRecord(recordId) : TRUE
              IN  attendanceRecords' =
                    (attendanceRecords \ {record})
                      \cup {updateAttendance(record, patch.attendance, user).record}
         ELSE UNCHANGED attendanceRecords
      /\ UNCHANGED <<classSections, students, now, probe, inflight, users, teachers>>

editAttendanceRecord(user, recordId, patch) ==
  LET res == editAttendanceRecordChecks(user, recordId, patch)
  IN  /\ response' = Respond("editAttendanceRecord", user, recordId, res[1], res[2])
      /\ IF res[2] = "Updated"
         THEN LET record == CHOOSE r \in FindRecord(recordId) : TRUE
              IN  attendanceRecords' =
                    (attendanceRecords \ {record}) \cup {editedRecord(record, user, patch)}
         ELSE UNCHANGED attendanceRecords
      /\ UNCHANGED <<classSections, students, now, probe, inflight, users, teachers>>

(***************************************************************************)
(* The handlers as they run concurrently.  A handler runs without          *)
(* interruption between two awaits.  markAttendance is cut at              *)
(* `await AttendanceRecord.create(...)`: what precedes prepares the        *)
(* document, the insert happens later.  editAttendanceRecord is cut at     *)
(* `await attendanceRecord.save()`: what precedes reads the document,      *)
(* checks it and changes the copy in memory, the write happens later.      *)
(* inflight holds the suspended handlers.                                  *)
(***************************************************************************)
RemoveAt(seq, i) == [k \in 1..(Len(seq) - 1) |-> IF k < i THEN seq[k] ELSE seq[k + 1]]

markAttendanceBegin(user, classSectionId, date, startTime, endTime, numSessions, attendance, suffix) ==
  LET res == markAttendanceChecks(user, classSectionId, date, startTime, endTime,
                                  numSessions, attendance, suffix)
  IN  IF res[2] \in {"Created", "DuplicateRecord"}
      THEN LET teacherId == CHOOSE t \in TeacherFindOne(user) : TRUE
               rec == newAttendanceRecord(teacherId, classSectionId, parseDate(date),
                                          startTime, endTime, numSessions, attendance, suffix)
           IN  /\ inflight' = Append(inflight, [op |-> "create", user |-> user, record |-> rec])
               /\ UNCHANGED <<classSections, students, attendanceRecords, now, response, probe, users, teachers>>
      ELSE /\ response' = Respond("markAttendance", user, NoTarget, res[1], res[2])
           /\ UNCHANGED <<classSections, students, attendanceRecords, now, probe, inflight, users, teachers>>

\* The insert of a suspended markAttendance, and the handler's response.
markAttendanceCreate(i) ==
  LET user == inflight[i].user
      rec == inflight[i].record
  IN  /\ inflight' = RemoveAt(inflight, i)
      /\ IF uniqueIndexViolated(rec.recordId)
         THEN /\ response' = Respond("markAttendance", user, NoTarget, 409, "DuplicateRecord")
              /\ UNCHANGED attendanceRecords
         ELSE /\ response' = Respond("markAttendance", user, rec.recordId, 201, "Created")
              /\ attendanceRecords' = attendanceRecords \cup {rec}
      /\ UNCHANGED <<classSections, students, now, probe, users, teachers>>

editAttendanceRecordBegin(user, recordId, patch) ==
  LET res == editAttendanceRecordChecks(user, recordId, patch)
  IN  IF res[2] = "Updated"
      THEN LET record == CHOOSE r \in FindRecord(recordId) : TRUE
           IN  /\ inflight' = Append(inflight, [op |-> "save", user |-> user, read |-> record,
                                                copy |-> editedRecord(record, user, patch)])
               /\ UNCHANGED <<classSections, students, attendanceRecords, now, response, probe, users, teachers>>
      ELSE /\ response' = Respond("editAttendanceRecord", user, recordId, res[1], res[2])
           /\ UNCHANGED <<classSections, students, attendanceRecords, now, probe, inflight, users, teachers>>

\* document.save(): the paths the handler changed in its copy are written
\* over the stored document, the other paths of the stored document stay.
saveModifiedPaths(stored, read, copy) ==
  [stored EXCEPT
     !.startTime = IF copy.startTime = read.startTime THEN @ ELSE copy.startTime,
     !.endTime = IF copy.endTime = read.endTime THEN @ ELSE copy.endTime,
     !.sessionBreakdown =
        IF copy.sessionBreakdown = read.sessionBreakdown THEN @ ELSE copy.sessionBreakdown,
     !.isFinalized = IF copy.isFinalized = read.isFinalized THEN @ ELSE copy.isFinalized,
     !.lastModifiedBy =
        IF copy.lastModifiedBy = read.lastModifiedBy THEN @ ELSE copy.lastModifiedBy,
     !.lastModifiedAt = copy.lastModifiedAt,
     !.attendance = [a \in 1..Len(stored.attendance) |->
        [sessions |-> [j \in 1..Len(stored.attendance[a].sessions) |->
            [stored.attendance[a].sessions[j] EXCEPT !.status =
               IF copy.attendance[a].sessions[j].status = read.attendance[a].sessions[j].status
               THEN @ ELSE copy.attendance[a].sessions[j].status]],
         studentId |-> stored.attendance[a].studentId,
         totalPresent |->
            IF copy.attendance[a].totalPresent = read.attendance[a].totalPresent
            THEN stored.attendance[a].totalPresent ELSE copy.attendance[a].totalPresent,
         totalAbsent |->
            IF copy.attendance[a].totalAbsent = read.attendance[a].totalAbsent
            THEN stored.attendance[a].totalAbsent ELSE copy.attendance[a].totalAbsent,
         attendancePercentage |->
            IF copy.attendance[a].attendancePercentage = read.attendance[a].attendancePercentage
            THEN stored.attendance[a].attendancePercentage
            ELSE copy.attendance[a].attendancePercentage]]]

\* The write of a suspended editAttendanceRecord, and the handler's response.
\* When another save reached the store since this handler read the document,
\* the write either goes through or fails on the document's version key
\* (VersionError, answered 500 by errorHandler): both outcomes are kept.
editAttendanceRecordSave(i, versionError) ==
  LET user == inflight[i].user
      read == inflight[i].read
      stored == CHOOSE r \in FindRecord(read.recordId) : TRUE
  IN  /\ inflight' = RemoveAt(inflight, i)
      /\ versionError => stored # read
      /\ IF versionError
         THEN /\ response' = Respond("editAttendanceRecord", user, read.recordId, 500, "VersionError")
              /\ UNCHANGED attendanceRecords
         ELSE /\ response' = Respond("editAttendanceRecord", user, read.recordId, 200, "Updated")
              /\ attendanceRecords' =
                   (attendanceRecords \ {stored})
                     \cup {saveModifiedPaths(stored, read, inflight[i].copy)}
      /\ UNCHANGED <<classSections, students, now, probe, users, teachers>>

(***************************************************************************)
(* ClassSection and Student model methods and the admin operations that    *)
(* use them (adminController.js).  The enrolledAt stamps are not kept.     *)
(***************************************************************************)
findRosterEntry(classSection, studentId) ==
  IF \E i \in 1..Len(classSection.students) : classSection.students[i].studentId = studentId
  THEN CHOOSE i \in 1..Len(classSection.students) :
         /\ classSection.students[i].studentId = studentId
         /\ \A j \in 1..(i - 1) : classSection.students[j].studentId # studentId
  ELSE 0

addStudent(classSection, studentId) ==
  LET i == findRosterEntry(classSection, studentId)
  IN  IF i # 0
      THEN IF classSection.students[i].status # "active"
           THEN [classSection EXCEPT !.students[i].status = "active",
                                     !.students[i].withdrawnAt = NoInstant]
           ELSE classSection
      ELSE [classSection EXCEPT !.students =
              Append(@, [studentId |-> studentId, status |-> "active", withdrawnAt |-> NoInstant])]

\* removeStudent taking the entry out of the roster.
removeStudentHardDelete(classSection, studentId, reason) ==
  [classSection EXCEPT !.students = SelectSeq(@, LAMBDA e : e.studentId # studentId)]

removeStudent(classSection, studentId, reason) ==
  LET i == findRosterEntry(classSection, studentId)
  IN  IF i # 0
      THEN [classSection EXCEPT
              !.students[i].status = IF reason = "transferred" THEN "transferred" ELSE "withdrawn",
              !.students[i].withdrawnAt = now]
      ELSE classSection

enrollInSubject(student, subjectId, semesterNumber) ==
  IF isEnrolled(student, subjectId) THEN student
  ELSE [student EXCEPT !.enrolledSubjects =
          Append(@, [subjectId |-> subjectId, semesterNumber |-> semesterNumber])]

unenrollFromSubject(student, subjectId) ==
  [student EXCEPT !.enrolledSubjects = SelectSeq(@, LAMBDA e : e.subjectId # subjectId)]

(***************************************************************************)
(* getAttendanceBySubject (studentController).                             *)
(***************************************************************************)
\* Student.findOne({ userId })
StudentFindOne(userId) == {st \in DOMAIN students : students[st].userId = userId}

\* The date filter of the query: a bound that is absent does not filter.
inDateRange(record, startDate, endDate) ==
  /\ startDate = NoDate \/ record.date >= getStartOfDay(parseDate(startDate))
  /\ endDate = NoDate \/ record.date <= getEndOfDay(parseDate(endDate))

\* The query without its 'attendance.studentId' condition.
findAttendanceRecordsAnyStudent(subjectId, studentId, startDate, endDate) ==
  {r \in attendanceRecords : r.subjectId = subjectId /\ inDateRange(r, startDate, endDate)}

\* AttendanceRecord.find({ subjectId, 'attendance.studentId', date })
findAttendanceRecords(subjectId, studentId, startDate, endDate) ==
  {r \in attendanceRecords :
     /\ r.subjectId = subjectId
     /\ \E i \in 1..Len(r.attendance) : r.attendance[i].studentId = studentId
     /\ inDateRange(r, startDate, endDate)}

NoSummary ==
  [totalClasses |-> 0, totalSessions |-> 0, presentCount |-> 0, absentCount |-> 0,
   attendancePercentage |-> 0]

\* The loop over the records found: a record without an entry of the student
\* adds nothing to the cumulative counts.
RECURSIVE cumulate(_, _, _)
cumulate(records, studentId, acc) ==
  IF records = {} THEN acc
  ELSE LET record == CHOOSE r \in records : TRUE
           i == findStudentAttendance(record, studentId)
       IN  cumulate(records \ {record}, studentId,
                    IF i # 0
                    THEN [acc EXCEPT !.totalSessions = @ + record.numSessions,
                                     !.presentCount = @ + record.attendance[i].totalPresent,
                                     !.absentCount = @ + record.attendance[i].totalAbsent]
                    ELSE acc)

summarize(records, studentId) ==
  LET acc == cumulate(records, studentId, NoSummary)
  IN  [acc EXCEPT !.totalClasses = Cardinality(records),
                  !.attendancePercentage =
                     IF acc.totalSessions > 0
                     THEN toFixed2Percentage(acc.presentCount, acc.totalSessions)
                     ELSE 0]

getAttendanceBySubject(user, subjectId, startDate, endDate) ==
  LET found == StudentFindOne(user)
      student == CHOOSE st \in found : TRUE
      records == findAttendanceRecords(subjectId, student, startDate, endDate)
      res == IF found = {} THEN <<404, "StudentProfileNotFound">>
             ELSE IF ~isEnrolled(students[student], subjectId) THEN <<403, "NotEnrolled">>
             ELSE IF subjectId \notin DOMAIN Subjects THEN <<404, "SubjectNotFound">>
             ELSE IF startDate # NoDate /\ parseDateThrows(startDate)
               THEN <<400, "InvalidStartDate">>
             ELSE IF endDate # NoDate /\ parseDateThrows(endDate) THEN <<400, "InvalidEndDate">>
             ELSE IF records = {} THEN <<200, "NoRecords">>
             ELSE <<200, "AttendanceRetrieved">>
  IN  /\ response' = Respond("getAttendanceBySubject", user, <<startDate, endDate>>, res[1], res[2])
                        @@ [summary |-> IF res[2] = "AttendanceRetrieved"
                                        THEN summarize(records, student) ELSE NoSummary]
      /\ UNCHANGED <<classSections, students, attendanceRecords, now, probe, inflight, users, teachers>>

AdminUser == "uadmin"

addStudentToSection(classSectionId, studentId) ==
  LET res == IF studentId = "" THEN <<400, "MissingFields">>
             ELSE IF classSectionId \notin DOMAIN classSections THEN <<404, "ClassSectionNotFound">>
             ELSE IF studentId \notin DOMAIN students THEN <<404, "StudentNotFound">>
             ELSE <<200, "Added">>
  IN  /\ response' = Respond("addStudentToSection", AdminUser, NoTarget, res[1], res[2])
      /\ classSections' = IF res[2] = "Added"
                          THEN [classSections EXCEPT ![classSectionId] = addStudent(@, studentId)]
                          ELSE classSections
      /\ UNCHANGED <<students, attendanceRecords, now, probe, inflight, users, teachers>>

removeStudentFromSection(classSectionId, studentId) ==
  LET res == IF classSectionId \notin DOMAIN classSections THEN <<404, "ClassSectionNotFound">>
             ELSE IF studentId \notin DOMAIN students THEN <<404, "StudentNotFound">>
             ELSE <<200, "Removed">>
  IN  /\ response' = Respond("removeStudentFromSection", AdminUser, NoTarget, res[1], res[2])
      /\ classSections' = IF res[2] = "Removed"
                          THEN [classSections EXCEPT
                                  ![classSectionId] = removeStudent(@, studentId, "withdrawn")]
                          ELSE classSections
      /\ UNCHANGED <<students, attendanceRecords, now, probe, inflight, users, teachers>>

\* The loop of bulkAddStudentsToSection over studentIds[k..]: an id without a
\* Student document is skipped, every other id goes through addStudent.
RECURSIVE addStudents(_, _, _)
addStudents(classSection, studentIds, k) ==
  IF k > Len(studentIds) THEN classSection
  ELSE addStudents(IF studentIds[k] \in DOMAIN students
                   THEN addStudent(classSection, studentIds[k]) ELSE classSection,
                   studentIds, k + 1)

\* studentIds is <<>> for a body whose studentIds is empty or not an array
bulkAddStudentsToSection(classSectionId, studentIds) ==
  LET res == IF studentIds = <<>> THEN <<400, "MissingFields">>
             ELSE IF classSectionId \notin DOMAIN classSections THEN <<404, "ClassSectionNotFound">>
             ELSE <<200, "BulkAdded">>
  IN  /\ response' = Respond("bulkAddStudentsToSection", AdminUser, NoTarget, res[1], res[2])
      /\ classSections' = IF res[2] = "BulkAdded"
                          THEN [classSections EXCEPT
                                  ![classSectionId] = addStudents(@, studentIds, 1)]
                          ELSE classSections
      /\ UNCHANGED <<students, attendanceRecords, now, probe, inflight, users, teachers>>

deleteClassSection(classSectionId) ==
  LET res == IF classSectionId \notin DOMAIN classSections THEN <<404, "ClassSectionNotFound">>
             ELSE <<200, "Deleted">>
  IN  /\ response' = Respond("deleteClassSection", AdminUser, NoTarget, res[1], res[2])
      /\ classSections' = IF res[2] = "Deleted"
                          THEN [classSections EXCEPT ![classSectionId].isActive = FALSE]
                          ELSE classSections
      /\ UNCHANGED <<students, attendanceRecords, now, probe, inflight, users, teachers>>

enrollStudent(studentId, subjectId, semesterNumber) ==
  LET res == IF subjectId = "" \/ semesterNumber = 0 THEN <<400, "MissingFields">>
             ELSE IF studentId \notin DOMAIN students THEN <<404, "StudentNotFound">>
             ELSE IF subjectId \notin SubjectIds THEN <<404, "SubjectNotFound">>
             ELSE IF isEnrolled(students[studentId], subjectId) THEN <<409, "AlreadyEnrolled">>
             ELSE <<201, "Enrolled">>
  IN  /\ response' = Respond("enrollStudent", AdminUser, NoTarget, res[1], res[2])
      /\ students' = IF res[2] = "Enrolled"
                     THEN [students EXCEPT
                             ![studentId] = enrollInSubject(@, subjectId, semesterNumber)]
                     ELSE students
      /\ UNCHANGED <<classSections, attendanceRecords, now, probe, inflight, users, teachers>>

removeEnrollment(studentId, subjectId) ==
  LET res == IF studentId \notin DOMAIN students THEN <<404, "StudentNotFound">>
             ELSE IF subjectId \notin SubjectIds THEN <<404, "SubjectNotFound">>
             ELSE <<200, "Unenrolled">>
  IN  /\ response' = Respond("removeEnrollment", AdminUser, NoTarget, res[1], res[2])
      /\ students' = IF res[2] = "Unenrolled"
                     THEN [students EXCEPT ![studentId] = unenrollFromSubject(@, subjectId)]
                     ELSE students
      /\ UNCHANGED <<classSections, attendanceRecords, now, probe, inflight, users, teachers>>

\* The collection without its unique compound index.
classSectionIndexViolatedNever(classSectionId, classSection) == FALSE

\* The unique index { subjectId, teacherId, semester, branch, sectionName } of
\* the ClassSection collection: storing `classSection` under `classSectionId`
\* fails with the duplicate-key error when another stored section has its key.
classSectionIndexViolated(classSectionId, classSection) ==
  \E c \in DOMAIN classSections \ {classSectionId} :
    /\ classSections[c].subjectId = classSection.subjectId
    /\ classSections[c].teacherId = classSection.teacherId
    /\ classSections[c].semester = classSection.semester
    /\ classSections[c].branch = classSection.branch
    /\ classSections[c].sectionName = classSection.sectionName

\* maxStudents is <<>> when the body has none, <<n>> otherwise; the schema has
\* no such path, so save() stores nothing for it.  academicYear is not kept.
NoMaxStudents == <<>>

updateClassSection(classSectionId, teacherId, maxStudents) ==
  LET res == IF classSectionId \notin DOMAIN classSections THEN <<404, "ClassSectionNotFound">>
             ELSE IF teacherId # "" /\ teacherId \notin DOMAIN teachers
               THEN <<404, "TeacherNotFound">>
             ELSE IF maxStudents # NoMaxStudents /\ (maxStudents[1] < 1 \/ maxStudents[1] > 200)
               THEN <<400, "InvalidMaxStudents">>
             ELSE IF teacherId # ""
                     /\ classSectionIndexViolated(classSectionId,
                          [classSections[classSectionId] EXCEPT !.teacherId = teacherId])
               THEN <<409, "DuplicateKey">>
             ELSE <<200, "SectionUpdated">>
  IN  /\ response' = Respond("updateClassSection", AdminUser, NoTarget, res[1], res[2])
      /\ classSections' = IF res[2] = "SectionUpdated" /\ teacherId # ""
                          THEN [classSections EXCEPT ![classSectionId].teacherId = teacherId]
                          ELSE classSections
      /\ UNCHANGED <<students, attendanceRecords, now, probe, inflight, users, teachers>>

\* String.prototype.toUpperCase on the strings the requests carry.
toUpperCase(str) ==
  IF str = "cse" THEN "CSE" ELSE IF str = "a" THEN "A" ELSE IF str = "b" THEN "B" ELSE str

\* The ids the store gives to new class sections, and the order in which
\* Student.find returns the students.
SectionIdPool == {"c1", "c2", "c3", "c4"}
StudentOrder == <<"s1", "s2">>

\* teacherSchema.methods.assignSubject
assignSubject(teacher, subjectId, semester, branch, section) ==
  IF \E i \in 1..Len(teacher.assignedSubjects) :
       /\ teacher.assignedSubjects[i].subjectId = subjectId
       /\ teacher.assignedSubjects[i].semester = semester
       /\ teacher.assignedSubjects[i].branch = branch
       /\ teacher.assignedSubjects[i].section = section
  THEN teacher
  ELSE [teacher EXCEPT !.assignedSubjects =
          Append(@, [subjectId |-> subjectId, semester |-> semester, branch |-> branch,
                     section |-> section])]

\* Student.find(studentQuery) mapped to roster entries.
matchingStudents(subjectId, semester, branch, sectionName) ==
  LET ids == SelectSeq(StudentOrder, LAMBDA st :
               /\ st \in DOMAIN students
               /\ students[st].branch = toUpperCase(branch)
               /\ students[st].currentSemester = semester
               /\ students[st].section = toUpperCase(sectionName)
               /\ isEnrolled(students[st], subjectId))
  IN  [k \in 1..Len(ids) |-> [studentId |-> ids[k], status |-> "active", withdrawnAt |-> NoInstant]]

\* The document handed to ClassSection.create.
newClassSection(subjectId, teacherId, semester, branch, sectionName) ==
  [subjectId |-> subjectId, teacherId |-> teacherId, semester |-> semester,
   branch |-> toUpperCase(branch), sectionName |-> toUpperCase(sectionName),
   students |-> matchingStudents(subjectId, semester, branch, sectionName),
   isActive |-> TRUE]

\* The checks and store operations of createClassSection in the order of the
\* code.  `fault` names the one store operation of the request that fails:
\* "create" (ClassSection.create), "teacherSave" (teacher.save), or "none".
createClassSectionChecks(subjectId, teacherId, semester, branch, sectionName, maxStudents, fault) ==
  IF subjectId = "" \/ teacherId = "" \/ semester = 0 \/ branch = "" \/ sectionName = ""
    THEN <<400, "MissingFields">>
  ELSE IF subjectId \notin DOMAIN Subjects THEN <<404, "SubjectNotFound">>
  ELSE IF teacherId \notin DOMAIN teachers THEN <<404, "TeacherNotFound">>
  ELSE IF maxStudents # NoMaxStudents /\ (maxStudents[1] < 1 \/ maxStudents[1] > 200)
    THEN <<400, "InvalidMaxStudents">>
  ELSE IF semester # Subjects[subjectId].semester THEN <<400, "SemesterMismatch">>
  ELSE IF toUpperCase(branch) # toUpperCase(Subjects[subjectId].branch)
    THEN <<400, "BranchMismatch">>
  ELSE IF fault = "create"
          \/ classSectionIndexViolated("", newClassSection(subjectId, teacherId, semester,
                                                           branch, sectionName))
    THEN <<500, "CreateFailed">>
  ELSE IF fault = "teacherSave" THEN <<500, "RolledBack">>
  ELSE <<201, "SectionCreated">>

\* createClassSection leaving the section in place when teacher.save() fails.
createClassSectionNoRollback(subjectId, teacherId, semester, branch, sectionName, maxStudents, fault) ==
  LET res == createClassSectionChecks(subjectId, teacherId, semester, branch, sectionName,
                                      maxStudents, fault)
      id == CHOOSE c \in SectionIdPool \ DOMAIN classSections : TRUE
      new == id :> newClassSection(subjectId, teacherId, semester, branch, sectionName)
  IN  /\ response' = Respond("createClassSection", AdminUser, NoTarget, res[1], res[2])
      /\ classSections' = IF res[2] \in {"SectionCreated", "RolledBack"}
                          THEN classSections @@ new ELSE classSections
      /\ teachers' = IF res[2] = "SectionCreated"
                     THEN [teachers EXCEPT ![teacherId] =
                             assignSubject(@, subjectId, semester, toUpperCase(branch),
                                           toUpperCase(sectionName))]
                     ELSE teachers
      /\ UNCHANGED <<students, attendanceRecords, now, probe, inflight, users>>

createClassSection(subjectId, teacherId, semester, branch, sectionName, maxStudents, fault) ==
  LET res == createClassSectionChecks(subjectId, teacherId, semester, branch, sectionName,
                                      maxStudents, fault)
      id == CHOOSE c \in SectionIdPool \ DOMAIN classSections : TRUE
      new == id :> newClassSection(subjectId, teacherId, semester, branch, sectionName)
  IN  /\ response' = Respond("createClassSection", AdminUser, NoTarget, res[1], res[2])
      /\ classSections' = IF res[2] = "SectionCreated" THEN classSections @@ new
                          ELSE classSections
      /\ teachers' = IF res[2] = "SectionCreated"
                     THEN [teachers EXCEPT ![teacherId] =
                             assignSubject(@, subjectId, semester, toUpperCase(branch),
                                           toUpperCase(sectionName))]
                     ELSE teachers
      /\ UNCHANGED <<students, attendanceRecords, now, probe, inflight, users>>

\* A function without one key of its domain.
Without(f, keys) == [k \in DOMAIN f \ keys |-> f[k]]

\* deleteUser.  user.deleteOne() runs the pre('deleteOne') hook of the User
\* schema, which deletes the Student or Teacher profile of the account, and
\* then deletes the User document.  `fault` names the one store operation
\* of the request that fails ("none": every operation succeeds); a failure
\* reaches errorHandler, which answers 500.
deleteUser(userId, fault) ==
  LET res == IF userId \notin DOMAIN users THEN <<404, "UserNotFound">>
             ELSE IF users[userId].role = "admin" THEN <<403, "CannotDeleteAdmin">>
             ELSE IF fault = "profileDelete" THEN <<500, "CascadeDeleteFailed">>
             ELSE IF fault = "userDelete" THEN <<500, "UserDeleteFailed">>
             ELSE <<200, "UserDeleted">>
      profileDeleted == res[2] \in {"UserDeleteFailed", "UserDeleted"}
  IN  /\ response' = Respond("deleteUser", AdminUser, NoTarget, res[1], res[2])
      /\ students' = IF profileDeleted /\ users[userId].role = "student"
                     THEN Without(students, {s \in DOMAIN students : students[s].userId = userId})
                     ELSE students
      /\ teachers' = IF profileDeleted /\ users[userId].role = "teacher"
                     THEN Without(teachers, {t \in DOMAIN teachers : teachers[t].userId = userId})
                     ELSE teachers
      /\ users' = IF res[2] = "UserDeleted" THEN Without(users, {userId}) ELSE users
      /\ UNCHANGED <<classSections, attendanceRecords, now, probe, inflight>>

deactivateUser(userId) ==
  LET res == IF userId \notin DOMAIN users THEN <<404, "UserNotFound">>
             ELSE IF users[userId].role = "admin" THEN <<403, "CannotDeactivateAdmin">>
             ELSE IF ~users[userId].isActive THEN <<400, "AlreadyDeactivated">>
             ELSE <<200, "UserDeactivated">>
  IN  /\ response' = Respond("deactivateUser", AdminUser, NoTarget, res[1], res[2])
      /\ users' = IF res[2] = "UserDeactivated" THEN [users EXCEPT ![userId].isActive = FALSE]
                  ELSE users
      /\ UNCHANGED <<classSections, students, attendanceRecords, now, probe, inflight, teachers>>

activateUser(userId) ==
  LET res == IF userId \notin DOMAIN users THEN <<404, "UserNotFound">>
             ELSE IF users[userId].isActive THEN <<400, "AlreadyActive">>
             ELSE <<200, "UserActivated">>
  IN  /\ response' = Respond("activateUser", AdminUser, NoTarget, res[1], res[2])
      /\ users' = IF res[2] = "UserActivated" THEN [users EXCEPT ![userId].isActive = TRUE]
                  ELSE users
      /\ UNCHANGED <<classSections, students, attendanceRecords, now, probe, inflight, teachers>>

(***************************************************************************)
(* The middleware in front of every admin route: authenticate, adminOnly.  *)
(* A token is the pair of the user it was issued to and whether            *)
(* verifyAccessToken accepts it; NoToken is the request without the cookie.*)
(***************************************************************************)
NoToken == [userId |-> NoUser, valid |-> FALSE]

\* authenticate: the error it answers with, or <<0, "next">>
authenticate(token) ==
  IF token = NoToken THEN <<401, "TokenRequired">>
  ELSE IF ~token.valid THEN <<401, "InvalidToken">>
  ELSE IF token.userId \notin DOMAIN users THEN <<401, "UserNoLongerExists">>
  ELSE IF ~users[token.userId].isActive THEN <<403, "AccountDeactivated">>
  ELSE <<0, "next">>

\* req.user as authenticate leaves it
reqUser(token) == [userId |-> token.userId, role |-> users[token.userId].role]

\* restrictTo letting every role through.
restrictToAnyRole(allowedRoles, user) == <<0, "next">>

restrictTo(allowedRoles, user) ==
  IF user.role \notin allowedRoles THEN <<403, "AccessDenied">> ELSE <<0, "next">>

adminOnly(user) == restrictTo({"admin"}, user)

\* router.<method>(path, authenticate, adminOnly, handler)
adminRoute(token, op, handler) ==
  LET auth == authenticate(token)
      res == IF auth[2] = "next" THEN adminOnly(reqUser(token)) ELSE auth
  IN  IF res[2] = "next" THEN handler
      ELSE /\ response' = Respond(op, token.userId, NoTarget, res[1], res[2])
           /\ UNCHANGED <<classSections, students, attendanceRecords, now, probe, inflight, users, teachers>>

(***************************************************************************)
(* The clock: a day passes.                                                *)
(***************************************************************************)
Tick ==
  /\ response = NoResponse
  /\ now < MaxClock
  /\ now' = now + 1
  /\ UNCHANGED <<classSections, students, attendanceRecords, response, probe, inflight, users, teachers>>

(***************************************************************************)
(* Requests are handled one at a time: a handler runs when no response is  *)
(* pending, and Deliver hands the pending response to the client.          *)
(***************************************************************************)
Deliver ==
  /\ response # NoResponse
  /\ response' = NoResponse
  /\ UNCHANGED <<classSections, students, attendanceRecords, now, probe, inflight, users, teachers>>

(***************************************************************************)
(* Request inputs.                                                         *)
(***************************************************************************)
UnknownStudentId == "s9"
UnknownSectionId == "c9"
UnknownSubjectId == "sub9"
Suffix == 7

SectionIdInputs == SectionIds \cup {UnknownSectionId}
StudentIdInputs == StudentIds \cup {UnknownStudentId}
SubjectIdInputs == SubjectIds \cup {UnknownSubjectId}
DateInputs == {NoDate, <<-1>>, <<0>>, <<MaxClock + 1>>}
FinalizeInputs == {"absent", "true", "false"}

Session(sessionNumber, status) == [sessionNumber |-> sessionNumber, status |-> status]

StudentAttendance(studentId, sessions) == [studentId |-> studentId, sessions |-> sessions]

entryCost(len) == IF len = 0 THEN 1 ELSE len

\* The attendance lists over the given students and sessions whose session
\* marks, counted over the whole list, number at most `marks` (a student
\* entry with no session counts for one).
RECURSIVE AttendanceInputsOfSize(_, _, _)
AttendanceInputsOfSize(marks, studentIds, sessionInputs) ==
  {<<>>} \cup UNION {
     {<<StudentAttendance(s, ss)>> \o rest :
        s \in studentIds, ss \in [1..len -> sessionInputs],
        rest \in AttendanceInputsOfSize(marks - entryCost(len), studentIds, sessionInputs)}
     : len \in {l \in 0..marks : entryCost(l) <= marks}}

MarkRequest(user, classSectionId, date, startTime, endTime, numSessions, attendance) ==
  [user |-> user, classSectionId |-> classSectionId, date |-> date, startTime |-> startTime,
   endTime |-> endTime, numSessions |-> numSessions, attendance |-> attendance]

Patch(attendance, startTime, endTime, isFinalized) ==
  [attendance |-> attendance, startTime |-> startTime, endTime |-> endTime,
   isFinalized |-> isFinalized]

EditRequest(user, recordId, patch) == [user |-> user, recordId |-> recordId, patch |-> patch]

\* The id of the one record the requests below can create, and an id no record has.
TheRecordId == <<0, "sub1", Semester, "A", Suffix>>
UnknownRecordId == <<0, "sub1", Semester, "A", Suffix + 1>>
RecordIdInputs == {TheRecordId, UnknownRecordId}

GoodStartTime == <<9, 0>>
GoodEndTime == <<12, 0>>

GoodMarkRequest(numSessions, attendance) ==
  MarkRequest("ut1", "c1", <<0>>, GoodStartTime, GoodEndTime, numSessions, attendance)

\* Two short attendance lists, sent with the faulty values of the other fields.
AttendanceProbes == {<<>>, <<StudentAttendance("s1", <<Session(1, PRESENT)>>)>>}

\* Single-entry lists with one thing wrong.
FaultyAttendanceInputs ==
  {<<StudentAttendance("s1", <<Session(0, PRESENT)>>)>>,
   <<StudentAttendance("s1", <<Session(1, "late")>>)>>,
   <<StudentAttendance("s1", <<Session(1, "")>>)>>,
   <<StudentAttendance("s2", <<Session(1, PRESENT)>>)>>,
   <<StudentAttendance(UnknownStudentId, <<Session(1, PRESENT)>>)>>,
   <<StudentAttendance("", <<Session(1, PRESENT)>>)>>}

(***************************************************************************)
(* The handlers as actions over a set of requests.                         *)
(***************************************************************************)
MarkAttendance(requests) ==
  /\ response = NoResponse
  /\ \E q \in requests :
       markAttendance(q.user, q.classSectionId, q.date, q.startTime, q.endTime,
                      q.numSessions, q.attendance, Suffix)

EditAttendanceRecord(requests) ==
  /\ response = NoResponse
  /\ \E q \in requests : editAttendanceRecord(q.user, q.recordId, q.patch)

AddStudentToSection ==
  /\ response = NoResponse
  /\ \E classSectionId \in SectionIdInputs, studentId \in StudentIdInputs :
       addStudentToSection(classSectionId, studentId)

RemoveStudentFromSection ==
  /\ response = NoResponse
  /\ \E classSectionId \in SectionIdInputs, studentId \in StudentIdInputs :
       removeStudentFromSection(classSectionId, studentId)

StudentIdsInputs ==
  UNION {[1..n -> StudentIdInputs] : n \in 0..MaxBulk}

BulkAddStudentsToSection ==
  /\ response = NoResponse
  /\ \E classSectionId \in SectionIdInputs, studentIds \in StudentIdsInputs :
       bulkAddStudentsToSection(classSectionId, studentIds)

DeleteClassSection ==
  /\ response = NoResponse
  /\ \E classSectionId \in SectionIdInputs : deleteClassSection(classSectionId)

EnrollStudent ==
  /\ response = NoResponse
  /\ \E studentId \in StudentIdInputs, subjectId \in SubjectIdInputs :
       enrollStudent(studentId, subjectId, Semester)

RemoveEnrollment ==
  /\ response = NoResponse
  /\ \E studentId \in StudentIdInputs, subjectId \in SubjectIdInputs :
       removeEnrollment(studentId, subjectId)

MarkAttendanceBegin(requests, suffixes) ==
  /\ Len(inflight) < MaxInflight
  /\ \E q \in requests, suffix \in suffixes :
       markAttendanceBegin(q.user, q.classSectionId, q.date, q.startTime, q.endTime,
                           q.numSessions, q.attendance, suffix)

MarkAttendanceCreate ==
  \E i \in 1..Len(inflight) : inflight[i].op = "create" /\ markAttendanceCreate(i)

EditAttendanceRecordBegin(requests) ==
  /\ Len(inflight) < MaxInflight
  /\ \E q \in requests : editAttendanceRecordBegin(q.user, q.recordId, q.patch)

EditAttendanceRecordSave ==
  \E i \in 1..Len(inflight), versionError \in BOOLEAN :
    inflight[i].op = "save" /\ editAttendanceRecordSave(i, versionError)

UnknownTeacherId == "t9"
TeacherIdInputs == {"", "t1", "t2", UnknownTeacherId}
MaxStudentsInputs == {NoMaxStudents, <<0>>, <<60>>}

UpdateClassSection ==
  /\ response = NoResponse
  /\ \E classSectionId \in SectionIdInputs, teacherId \in TeacherIdInputs,
        maxStudents \in MaxStudentsInputs :
       updateClassSection(classSectionId, teacherId, maxStudents)

StudentUserId == [s \in StudentIds |-> "u" \o s]
TeacherFindOneInit(userId) == {p \in TeacherProfiles : p.userId = userId}

\* The well-formed request with one field changed, and every teacher with
\* every section name.
GoodSectionRequest ==
  [subjectId |-> "sub1", teacherId |-> "t2", semester |-> Semester, branch |-> "CSE",
   sectionName |-> "B", maxStudents |-> NoMaxStudents]

SectionRequestInputs ==
  {[GoodSectionRequest EXCEPT !.subjectId = x] : x \in SubjectIdInputs \cup {""}}
  \cup {[GoodSectionRequest EXCEPT !.semester = x] : x \in {0, Semester + 1}}
  \cup {[GoodSectionRequest EXCEPT !.branch = x] : x \in {"", "cse", "ECE"}}
  \cup {[GoodSectionRequest EXCEPT !.maxStudents = x] : x \in MaxStudentsInputs}
  \cup {[GoodSectionRequest EXCEPT !.teacherId = t, !.sectionName = n] :
          t \in TeacherIdInputs, n \in {"A", "a", "B", ""}}

CreateFaultInputs == {"none", "create", "teacherSave"}

CreateClassSection ==
  /\ response = NoResponse
  /\ Cardinality(DOMAIN classSections) < MaxSections
  /\ \E q \in SectionRequestInputs, fault \in CreateFaultInputs :
       createClassSection(q.subjectId, q.teacherId, q.semester, q.branch, q.sectionName,
                          q.maxStudents, fault)

UnknownUserId == "u9"
UserIdInputs == {"ut1", "ut2", "us1", "uadmin", UnknownUserId}
DeleteFaultInputs == {"none", "profileDelete", "userDelete"}

DeleteUser ==
  /\ response = NoResponse
  /\ \E userId \in UserIdInputs, fault \in DeleteFaultInputs : deleteUser(userId, fault)

\* The admin routes asked for with a token.
deleteUserRoute(token) ==
  \E userId \in UserIdInputs, fault \in DeleteFaultInputs :
    adminRoute(token, "deleteUser", deleteUser(userId, fault))

deactivateUserRoute(token) ==
  \E userId \in UserIdInputs : adminRoute(token, "deactivateUser", deactivateUser(userId))

activateUserRoute(token) ==
  \E userId \in UserIdInputs : adminRoute(token, "activateUser", activateUser(userId))

updateClassSectionRoute(token) ==
  \E classSectionId \in SectionIdInputs, teacherId \in TeacherIdInputs :
    adminRoute(token, "updateClassSection",
               updateClassSection(classSectionId, teacherId, NoMaxStudents))

AdminToken == [userId |-> AdminUser, valid |-> TRUE]

TokenInputs ==
  {NoToken} \cup {[userId |-> u, valid |-> v] :
                    u \in {AdminUser, "us1", "ut1", UnknownUserId}, v \in BOOLEAN}

\* The token under watch (probe) and the administrator's.
RequestTokens == {probe[1], AdminToken}

DeleteUserRoute ==
  response = NoResponse /\ \E token \in RequestTokens : deleteUserRoute(token)

DeactivateUserRoute ==
  response = NoResponse /\ \E token \in RequestTokens : deactivateUserRoute(token)

ActivateUserRoute ==
  response = NoResponse /\ \E token \in RequestTokens : activateUserRoute(token)

UpdateClassSectionRoute ==
  response = NoResponse /\ \E token \in RequestTokens : updateClassSectionRoute(token)

(***************************************************************************)
(* authController: login, refreshAccessToken, logout, getProfile.  A       *)
(* refresh token is the signed payload {userId, tokenId} with its expiry;  *)
(* the User document keeps the tokens issued to it in refreshTokens.       *)
(***************************************************************************)
\* process.env.JWT_REFRESH_EXPIRY, in ticks of the clock
JWT_REFRESH_EXPIRY == 1

NoRefreshToken == [userId |-> NoUser, tokenId |-> 0, exp |-> 0, signed |-> FALSE]

NoCookies == [accessToken |-> NoToken, refreshToken |-> NoRefreshToken]

generateAccessToken(userId) == [userId |-> userId, valid |-> TRUE]

generateRefreshToken(userId, tokenId) ==
  [userId |-> userId, tokenId |-> tokenId, exp |-> now + JWT_REFRESH_EXPIRY, signed |-> TRUE]

getTokenExpiryDate(expiry) == now + expiry

\* jwt.verify: a bad signature or an expired token throws
verifyRefreshTokenThrows(refreshToken) == ~refreshToken.signed \/ refreshToken.exp <= now

addRefreshToken(refreshTokens, token, expiresAt) ==
  Append(refreshTokens, [token |-> token, expiresAt |-> expiresAt])

\* removeRefreshToken emptying the list, as removeAllRefreshTokens does.
removeRefreshTokenAll(refreshTokens, token) == <<>>

removeRefreshToken(refreshTokens, token) ==
  SelectSeq(refreshTokens, LAMBDA rt : rt.token # token)

tokenExists(user, refreshToken) ==
  \E i \in 1..Len(user.refreshTokens) :
    user.refreshTokens[i].token = refreshToken /\ user.refreshTokens[i].expiresAt > now

\* login of the account userId (found by its email); the response carries
\* the cookies it sets.
login(userId, passwordValid, tokenId) ==
  LET res == IF userId \notin DOMAIN users THEN <<401, "InvalidCredentials">>
             ELSE IF ~users[userId].isActive THEN <<403, "AccountDeactivated">>
             ELSE IF ~passwordValid THEN <<401, "InvalidCredentials">>
             ELSE <<200, "LoginSuccessful">>
      refreshToken == generateRefreshToken(userId, tokenId)
      refreshTokenExpiry == getTokenExpiryDate(JWT_REFRESH_EXPIRY)
  IN  /\ response' = Respond("login", userId, <<passwordValid>>, res[1], res[2])
                       @@ [cookies |-> IF res[1] = 200
                                       THEN [accessToken |-> generateAccessToken(userId),
                                             refreshToken |-> refreshToken]
                                       ELSE NoCookies]
      /\ users' = IF res[1] = 200
                  THEN [users EXCEPT ![userId].refreshTokens =
                          addRefreshToken(@, refreshToken, refreshTokenExpiry)]
                  ELSE users
      /\ UNCHANGED <<classSections, students, attendanceRecords, now, inflight, teachers>>

\* the status and outcome refreshAccessToken answers with
refreshAccessTokenResult(refreshToken) ==
  IF refreshToken = NoRefreshToken THEN <<401, "RefreshTokenRequired">>
  ELSE IF verifyRefreshTokenThrows(refreshToken) THEN <<401, "InvalidRefreshToken">>
  ELSE IF refreshToken.userId \notin DOMAIN users THEN <<401, "UserNotFound">>
  ELSE IF ~users[refreshToken.userId].isActive THEN <<403, "AccountDeactivated">>
  ELSE IF ~tokenExists(users[refreshToken.userId], refreshToken)
       THEN <<401, "RefreshTokenRevoked">>
  ELSE <<200, "TokenRefreshed">>

refreshAccessToken(refreshToken) ==
  LET res == refreshAccessTokenResult(refreshToken)
  IN  /\ response' = Respond("refreshAccessToken", refreshToken.userId, <<refreshToken>>,
                             res[1], res[2])
                       @@ [cookies |-> [accessToken |-> IF res[1] = 200
                                                        THEN generateAccessToken(refreshToken.userId)
                                                        ELSE NoToken,
                                        refreshToken |-> NoRefreshToken]]
      /\ UNCHANGED <<classSections, students, attendanceRecords, now, probe, inflight, users, teachers>>

logout(user, accessToken, refreshToken) ==
  /\ response' = Respond("logout", user.userId, <<accessToken, refreshToken>>, 200, "LogoutSuccessful")
                   @@ [cookies |-> NoCookies]
  /\ users' = IF refreshToken # NoRefreshToken /\ user.userId \in DOMAIN users
              THEN [users EXCEPT ![user.userId].refreshTokens =
                      removeRefreshToken(@, refreshToken)]
              ELSE users
  /\ UNCHANGED <<classSections, students, attendanceRecords, now, probe, inflight, teachers>>

getProfile(user, accessToken) ==
  LET res == IF user.userId \notin DOMAIN users THEN <<404, "UserNotFound">>
             ELSE <<200, "ProfileRetrieved">>
  IN  /\ response' = Respond("getProfile", user.userId, <<accessToken>>, res[1], res[2])
      /\ UNCHANGED <<classSections, students, attendanceRecords, now, probe, inflight, users, teachers>>

\* authenticate skipping the isActive check.
authenticatedRouteAnyAccount(token, refreshToken, op, handler) ==
  IF token # NoToken /\ token.valid /\ token.userId \in DOMAIN users THEN handler
  ELSE /\ response' = Respond(op, token.userId, <<token, refreshToken>>, 401, "InvalidToken")
       /\ UNCHANGED <<classSections, students, attendanceRecords, now, probe, inflight, users, teachers>>

\* router.<method>(path, authenticate, handler)
authenticatedRoute(token, refreshToken, op, handler) ==
  LET auth == authenticate(token)
  IN  IF auth[2] = "next" THEN handler
      ELSE /\ response' = Respond(op, token.userId, <<token, refreshToken>>, auth[1], auth[2])
           /\ UNCHANGED <<classSections, students, attendanceRecords, now, probe, inflight, users, teachers>>

logoutRoute(token, refreshToken) ==
  authenticatedRoute(token, refreshToken, "logout", logout(reqUser(token), token, refreshToken))

getProfileRoute(token) ==
  authenticatedRoute(token, NoRefreshToken, "getProfile", getProfile(reqUser(token), token))

(***************************************************************************)
(* signup.  The account is found by its email, which is its key in users;  *)
(* a new Student or Teacher document is keyed by its prn or teacherId.     *)
(* `fault` names the one store operation of the request that fails.        *)
(***************************************************************************)
USER_ROLES == {"student", "teacher", "admin"}

\* req.body.roleSpecificData absent
NoData == [id |-> "", rest |-> FALSE, present |-> FALSE]

\* roleSpecificData: prn or teacherId, and whether the other required fields are there
RoleSpecificData(id, rest) == [id |-> id, rest |-> rest, present |-> TRUE]

signup(email, password, role, roleSpecificData, fault) ==
  LET profiles == IF role = "student" THEN students ELSE teachers
      rollback(status, kind) ==
        IF fault = "userDelete" THEN <<500, "RollbackFailed">> ELSE <<status, kind>>
      res == IF password = "mismatch" THEN <<400, "PasswordMismatch">>
             ELSE IF password = "weak" THEN <<400, "WeakPassword">>
             ELSE IF email \in DOMAIN users THEN <<409, "EmailExists">>
             ELSE IF role \notin USER_ROLES THEN <<400, "InvalidRole">>
             ELSE IF role = "admin" THEN <<403, "AdminSignupForbidden">>
             ELSE IF fault = "userCreate" THEN <<500, "UserCreateFailed">>
             ELSE IF ~roleSpecificData.present THEN <<500, "TypeError">>
             ELSE IF roleSpecificData.id = "" \/ ~roleSpecificData.rest
                  THEN rollback(400, "MissingFields")
             ELSE IF roleSpecificData.id \in DOMAIN profiles THEN rollback(409, "IdExists")
             ELSE IF fault = "profileCreate" THEN <<500, "ProfileCreateFailed">>
             ELSE <<201, "Created">>
      userStays == res[2] \in {"TypeError", "RollbackFailed", "ProfileCreateFailed", "Created"}
      user == [role |-> role, isActive |-> TRUE, refreshTokens |-> <<>>]
  IN  /\ response' = Respond("signup", email, NoTarget, res[1], res[2])
      /\ users' = IF userStays THEN (email :> user) @@ users ELSE users
      /\ students' = IF res[2] = "Created" /\ role = "student"
                     THEN (roleSpecificData.id :>
                             [enrolledSubjects |-> <<>>, userId |-> email, branch |-> "CSE",
                              currentSemester |-> Semester, section |-> "A"]) @@ students
                     ELSE students
      /\ teachers' = IF res[2] = "Created" /\ role = "teacher"
                     THEN (roleSpecificData.id :> [userId |-> email, assignedSubjects |-> <<>>])
                            @@ teachers
                     ELSE teachers
      /\ UNCHANGED <<classSections, attendanceRecords, now, probe, inflight>>

EmailInputs == {"us1", "u3", "u4"}
PasswordInputs == {"ok", "mismatch", "weak"}
RoleInputs == USER_ROLES \cup {"guest"}
RoleSpecificDataInputs ==
  {NoData} \cup {RoleSpecificData(id, rest) : id \in {"", "s1", "t1", "s3", "t3"}, rest \in BOOLEAN}
SignupFaultInputs == {"none", "userCreate", "userDelete", "profileCreate"}

Signup ==
  /\ response = NoResponse
  /\ \E email \in EmailInputs, password \in PasswordInputs, role \in RoleInputs,
        roleSpecificData \in RoleSpecificDataInputs, fault \in SignupFaultInputs :
       signup(email, password, role, roleSpecificData, fault)

InitData ==
  /\ classSections = [c \in SectionIds |->
        [subjectId |-> "sub1", teacherId |-> "t1", semester |-> Semester, branch |-> "CSE",
         sectionName |-> "A",
         students |-> <<[studentId |-> "s1", status |-> "active", withdrawnAt |-> NoInstant]>>,
         isActive |-> TRUE]]
  /\ students = [s \in StudentIds |->
        [enrolledSubjects |-> <<[subjectId |-> "sub1", semesterNumber |-> Semester]>>,
         userId |-> StudentUserId[s], branch |-> "CSE", currentSemester |-> Semester,
         section |-> "A"]]
  /\ users = [u \in Users \cup {StudentUserId[s] : s \in StudentIds} |->
        [role |-> IF u = AdminUser THEN "admin"
                  ELSE IF TeacherFindOneInit(u) # {} THEN "teacher" ELSE "student",
         isActive |-> TRUE, refreshTokens |-> <<>>]]
  /\ teachers = [t \in {p.id : p \in TeacherProfiles} |->
        [userId |-> (CHOOSE p \in TeacherProfiles : p.id = t).userId,
         assignedSubjects |->
           IF t = "t1"
           THEN <<[subjectId |-> "sub1", semester |-> Semester, branch |-> "CSE",
                   section |-> "A"]>>
           ELSE <<>>]]
  /\ attendanceRecords = {}
  /\ now = 0
  /\ response = NoResponse
  /\ inflight = <<>>

Init == InitData /\ probe = <<>>

(***************************************************************************)
(* Spec: the record lifecycle.  One teacher's class with a fixed roster;   *)
(* every attendance list of at most MaxMarks marks, in creations and in    *)
(* edits.                                                                  *)
(***************************************************************************)
StartTimeInputs == {NoTime, GoodStartTime, <<24, 0>>}
EndTimeInputs == {NoTime, GoodEndTime, <<9, 30>>, <<9, 0>>, <<9, 60>>}
PatchStartTimeInputs == {NoTime, GoodStartTime, <<24, 0>>}
PatchEndTimeInputs == {NoTime, GoodEndTime, <<9, 60>>}
NumSessionsInputs == 0..(MaxMarks + 1) \cup {MAX_SESSIONS_PER_CLASS + 1}

AttendanceInputs ==
  FaultyAttendanceInputs
    \cup AttendanceInputsOfSize(MaxMarks, {"s1"},
                                {Session(n, st) : n \in 1..MaxMarks, st \in ATTENDANCE_STATUS})

\* The well-formed single-session request with one field changed, with the
\* short lists.
MarkRequestProbes ==
  LET good(a) == GoodMarkRequest(1, a)
  IN  UNION {
        {[good(a) EXCEPT !.user = u] : u \in Users}
        \cup {[good(a) EXCEPT !.classSectionId = c] : c \in SectionIdInputs}
        \cup {[good(a) EXCEPT !.date = d] : d \in DateInputs}
        \cup {[good(a) EXCEPT !.startTime = t] : t \in StartTimeInputs}
        \cup {[good(a) EXCEPT !.endTime = t] : t \in EndTimeInputs}
        \cup {[good(a) EXCEPT !.numSessions = n] : n \in NumSessionsInputs}
        : a \in AttendanceProbes}

MarkRequestInputs ==
  MarkRequestProbes
    \cup {GoodMarkRequest(n, a) : n \in 1..MaxMarks, a \in AttendanceInputs}

PatchProbes ==
  {Patch(a, s, e, f) : a \in AttendanceProbes, s \in PatchStartTimeInputs,
                       e \in PatchEndTimeInputs, f \in FinalizeInputs}

PatchInputs ==
  PatchProbes
    \cup {Patch(a, NoTime, NoTime, f) : a \in AttendanceInputs, f \in {"absent", "true"}}

EditRequestProbes ==
  {EditRequest(u, r, p) : u \in Users, r \in RecordIdInputs, p \in PatchProbes}

EditRequestInputs ==
  EditRequestProbes \cup {EditRequest("ut1", TheRecordId, p) : p \in PatchInputs}

Next ==
  \/ MarkAttendance(MarkRequestInputs)
  \/ EditAttendanceRecord(EditRequestInputs)
  \/ Deliver

Spec == Init /\ [][Next]_vars

(***************************************************************************)
(* SpecTotals: the totals of a student entry.  Creations of classes of up  *)
(* to MaxSlots sessions with every marking of student s1, and edits that   *)
(* set one session of s1.                                                  *)
(***************************************************************************)
TotalsMarkRequestInputs ==
  UNION {{GoodMarkRequest(n, <<StudentAttendance("s1", [k \in 1..n |-> Session(k, st[k])])>>) :
            st \in [1..n -> ATTENDANCE_STATUS]} : n \in 1..MaxSlots}

TotalsEditRequestInputs ==
  {EditRequest("ut1", TheRecordId,
               Patch(<<StudentAttendance("s1", <<Session(k, st)>>)>>, NoTime, NoTime, "absent")) :
     k \in 1..MaxSlots, st \in ATTENDANCE_STATUS}

NextTotals ==
  \/ MarkAttendance(TotalsMarkRequestInputs)
  \/ EditAttendanceRecord(TotalsEditRequestInputs)
  \/ Tick
  \/ Deliver

SpecTotals == Init /\ [][NextTotals]_vars

(***************************************************************************)
(* SpecSummary: a student's attendance in a subject.  Classes of up to     *)
(* MaxSlots sessions on the first two days, with s1 present in the         *)
(* first sessions and s2, once on the roster, marked or left out.          *)
(***************************************************************************)
PresentFirst(studentId, numSessions, presentCount) ==
  StudentAttendance(studentId, [k \in 1..numSessions |->
                                  Session(k, IF k <= presentCount THEN PRESENT ELSE ABSENT)])

SummaryMarkRequestInputs ==
  UNION {{MarkRequest("ut1", "c1", d, GoodStartTime, GoodEndTime, n, a) :
            d \in {<<0>>, <<1>>},
            a \in UNION {{<<PresentFirst("s1", n, p)>>,
                          <<PresentFirst("s1", n, p), PresentFirst("s2", n, n)>>,
                          <<PresentFirst("s1", n, p), PresentFirst("s2", n, 0)>>} : p \in 0..n}}
         : n \in 1..MaxSlots}

GetAttendanceBySubject ==
  /\ response = NoResponse
  /\ \E user \in {"us1", "us2", "ut1"}, subjectId \in SubjectIdInputs,
        startDate \in DateInputs, endDate \in DateInputs :
       getAttendanceBySubject(user, subjectId, startDate, endDate)

NextSummary ==
  \/ MarkAttendance(SummaryMarkRequestInputs)
  \/ AddStudentToSection
  \/ GetAttendanceBySubject
  \/ Tick
  \/ Deliver

SpecSummary == Init /\ [][NextSummary]_vars

(***************************************************************************)
(* SpecTimes: the times of a record.  Creations and edits of classes of up *)
(* to MaxSlots sessions, with start and end times early and late in the    *)
(* day, on the days up to MaxClock.                                        *)
(***************************************************************************)
TimeInputs == {NoTime, GoodStartTime, <<9, 45>>, GoodEndTime, <<23, 30>>, <<9, 60>>}

\* Student s1 present in every one of the sessions.
AllPresent(numSessions) ==
  <<StudentAttendance("s1", [k \in 1..numSessions |-> Session(k, PRESENT)])>>

TimesMarkRequestInputs ==
  {MarkRequest("ut1", "c1", d, s, e, n, <<>>) :
     d \in {<<0>>, <<MaxClock + 1>>}, s \in TimeInputs, e \in TimeInputs, n \in 1..MaxSlots}
  \cup
  {MarkRequest("ut1", "c1", d, s, e, n, AllPresent(n)) :
     d \in {<<0>>, <<MaxClock + 1>>}, s \in TimeInputs, e \in TimeInputs, n \in 1..MaxSlots}
  \cup
  {MarkRequest("ut1", "c1", <<0>>, s, e, n, AllPresent(n)) :
     s \in TimeInputs, e \in TimeInputs, n \in {0, MAX_SESSIONS_PER_CLASS + 1}}

TimesEditRequestInputs ==
  {EditRequest("ut1", TheRecordId, Patch(a, s, e, f)) :
     a \in AttendanceProbes, s \in TimeInputs, e \in TimeInputs, f \in {"absent", "true"}}

NextTimes ==
  \/ MarkAttendance(TimesMarkRequestInputs)
  \/ EditAttendanceRecord(TimesEditRequestInputs)
  \/ Tick
  \/ Deliver

SpecTimes == Init /\ [][NextTimes]_vars

(***************************************************************************)
(* SpecDates: the date of a class.  The date of the requests is drawn at   *)
(* the start and kept in probe: a string that is no date, day 0, day 1 and *)
(* the day after the last day of the clock; the clock moves, so the same   *)
(* date is a future day, today and a past day.                             *)
(***************************************************************************)
DatesInputs == {<<-1>>, <<0>>, <<1>>, <<MaxClock + 1>>}

InitDates == InitData /\ probe \in {<<d>> : d \in DatesInputs}

DatesMarkRequestInputs ==
  {MarkRequest(u, "c1", probe[1], GoodStartTime, e, n, AllPresent(n)) :
     u \in {"ut1", "ut2"}, e \in {<<9, 45>>, GoodEndTime}, n \in 1..MaxSlots}

NextDates ==
  \/ MarkAttendance(DatesMarkRequestInputs)
  \/ Tick
  \/ Deliver

SpecDates == InitDates /\ [][NextDates]_vars

(***************************************************************************)
(* SpecRoster: the record lifecycle under the admin operations on the      *)
(* roster, the enrolments and the section.  Single-session classes; the    *)
(* attendance lists of at most MaxEntries students.                        *)
(***************************************************************************)
RosterAttendanceInputs ==
  SeqsUpTo({StudentAttendance(s, <<ss>>) :
              s \in StudentIdInputs, ss \in {Session(1, PRESENT), Session(1, "late")}},
           MaxEntries)

RosterMarkRequestInputs ==
  MarkRequestProbes \cup {GoodMarkRequest(1, a) : a \in RosterAttendanceInputs}

RosterEditRequestInputs ==
  {EditRequest(u, r, Patch(a, NoTime, NoTime, f)) :
     u \in Users, r \in RecordIdInputs, a \in AttendanceProbes, f \in FinalizeInputs}

NextRoster ==
  \/ MarkAttendance(RosterMarkRequestInputs)
  \/ EditAttendanceRecord(RosterEditRequestInputs)
  \/ AddStudentToSection
  \/ BulkAddStudentsToSection
  \/ RemoveStudentFromSection
  \/ DeleteClassSection
  \/ EnrollStudent
  \/ RemoveEnrollment
  \/ Deliver

SpecRoster == Init /\ [][NextRoster]_vars

(***************************************************************************)
(* SpecAssign: the record lifecycle while the admin reassigns the section  *)
(* from one teacher to another.  Single-session classes, every account.    *)
(***************************************************************************)
NextAssign ==
  \/ MarkAttendance(MarkRequestProbes)
  \/ EditAttendanceRecord(RosterEditRequestInputs)
  \/ UpdateClassSection
  \/ Deliver

SpecAssign == Init /\ [][NextAssign]_vars

(***************************************************************************)
(* SpecPatches: the edits of a record under one patch, `probe`, drawn from *)
(* the patches whose attendance lists have at most MaxPatchMarks session   *)
(* updates, sent by either teacher against a record of one or two          *)
(* sessions.                                                               *)
(***************************************************************************)
MaxPatchMarks == 3

SessionUpdateInputs ==
  {Session(1, PRESENT), Session(1, ABSENT), Session(2, PRESENT), Session(2, ABSENT),
   Session(1, "late")}

\* A valid first entry followed by an entry the model method rejects.
LateFaultAttendanceInputs ==
  {<<StudentAttendance("s1", <<Session(1, ABSENT)>>), e>> :
     e \in {StudentAttendance(UnknownStudentId, <<Session(1, PRESENT)>>),
            StudentAttendance("", <<Session(1, PRESENT)>>),
            StudentAttendance("s1", <<Session(1, "")>>)}}

PatchesInputs ==
  {Patch(a, NoTime, NoTime, "absent") :
     a \in AttendanceInputsOfSize(MaxPatchMarks, {"s1"}, SessionUpdateInputs)
            \cup LateFaultAttendanceInputs}
  \cup PatchProbes

InitPatches == InitData /\ probe \in {<<p>> : p \in PatchesInputs}

PatchesMarkRequestInputs == {GoodMarkRequest(n, AllPresent(n)) : n \in 1..2}

PatchesEditRequestInputs ==
  {EditRequest(u, r, probe[1]) : u \in {"ut1", "ut2"}, r \in RecordIdInputs}

NextPatches ==
  \/ MarkAttendance(PatchesMarkRequestInputs)
  \/ EditAttendanceRecord(PatchesEditRequestInputs)
  \/ Deliver

SpecPatches == InitPatches /\ [][NextPatches]_vars

(***************************************************************************)
(* SpecConcurrent: up to MaxInflight handlers of teacher ut1 suspended at  *)
(* once, in every interleaving.  Creations with either of two id suffixes  *)
(* and either status for s1; edits that change the attendance, the start   *)
(* time or the finalized flag.                                             *)
(***************************************************************************)
SuffixInputs == {Suffix, Suffix + 2}

ConcurrentMarkRequestInputs ==
  {GoodMarkRequest(1, <<StudentAttendance("s1", <<Session(1, st)>>)>>) :
     st \in {PRESENT, ABSENT, "late"}}

ConcurrentPatchInputs ==
  {Patch(<<StudentAttendance("s1", <<Session(1, ABSENT)>>)>>, NoTime, NoTime, "absent"),
   Patch(<<>>, <<9, 45>>, NoTime, "absent"),
   Patch(<<>>, NoTime, NoTime, "true")}

ConcurrentEditRequestInputs ==
  {EditRequest("ut1", r, p) : r \in RecordIdInputs, p \in ConcurrentPatchInputs}

NextConcurrent ==
  \/ MarkAttendanceBegin(ConcurrentMarkRequestInputs, SuffixInputs)
  \/ MarkAttendanceCreate
  \/ EditAttendanceRecordBegin(ConcurrentEditRequestInputs)
  \/ EditAttendanceRecordSave

SpecConcurrent == Init /\ [][NextConcurrent]_vars

(***************************************************************************)
(* SpecAdmin: the admin operations on accounts, class sections and         *)
(* rosters, each with at most one failing store operation.                 *)
(***************************************************************************)
NextAdmin ==
  \/ CreateClassSection
  \/ DeleteUser
  \/ UpdateClassSection
  \/ Deliver

SpecAdmin == Init /\ [][NextAdmin]_vars

(***************************************************************************)
(* SpecAuth: the admin routes behind authenticate and adminOnly.  probe    *)
(* holds a token drawn at the start: none, or one issued to the admin, a   *)
(* student, a teacher or an unknown user, valid or not; requests come with *)
(* it or with the administrator's token, whose requests delete,            *)
(* deactivate and activate the users the drawn token may belong to.        *)
(***************************************************************************)
InitAuth == InitData /\ probe \in {<<t>> : t \in TokenInputs}

NextAuth ==
  \/ DeleteUserRoute
  \/ DeactivateUserRoute
  \/ ActivateUserRoute
  \/ UpdateClassSectionRoute
  \/ Deliver

SpecAuth == InitAuth /\ [][NextAuth]_vars

(***************************************************************************)
(* SpecLogin: two accounts log in, refresh, read their profile and log     *)
(* out while the administrator deactivates and activates them and the      *)
(* clock runs past the refresh tokens' expiry.  probe holds the refresh    *)
(* tokens issued so far, which are the cookies the clients hold.           *)
(***************************************************************************)
MaxLogins == 2

LoginUsers == {"us1", "ut1"}

ForgedRefreshToken == [userId |-> "us1", tokenId |-> 1, exp |-> MaxClock + 1, signed |-> FALSE]

Login ==
  /\ response = NoResponse
  /\ \E userId \in LoginUsers \cup {UnknownUserId}, passwordValid \in BOOLEAN :
       login(userId, passwordValid, Cardinality(probe[1]) + 1)
  /\ Cardinality(probe[1]) < MaxLogins \/ response'.status # 200
  /\ probe' = <<probe[1] \cup ({response'.cookies.refreshToken} \ {NoRefreshToken})>>

RefreshAccessToken ==
  /\ response = NoResponse
  /\ \E refreshToken \in probe[1] \cup {NoRefreshToken, ForgedRefreshToken} :
       refreshAccessToken(refreshToken)

\* The access-token cookies that can accompany a refresh-token cookie: set
\* by the same login or by a refresh with it, expired or not, or none.
AccessTokensWith(refreshToken) ==
  IF refreshToken = NoRefreshToken
  THEN {NoToken} \cup {[userId |-> u, valid |-> v] : u \in LoginUsers, v \in BOOLEAN}
  ELSE {NoToken} \cup {[userId |-> refreshToken.userId, valid |-> v] : v \in BOOLEAN}

Logout ==
  /\ response = NoResponse
  /\ \E refreshToken \in probe[1] \cup {NoRefreshToken} :
       \E token \in AccessTokensWith(refreshToken) : logoutRoute(token, refreshToken)

GetProfile ==
  /\ response = NoResponse
  /\ \E token \in AccessTokensWith(NoRefreshToken) : getProfileRoute(token)

DeactivateUser ==
  response = NoResponse /\ \E userId \in LoginUsers : deactivateUser(userId)

ActivateUser ==
  response = NoResponse /\ \E userId \in LoginUsers : activateUser(userId)

InitLogin == InitData /\ probe = <<{}>>

NextLogin ==
  \/ Login
  \/ RefreshAccessToken
  \/ Logout
  \/ GetProfile
  \/ DeactivateUser
  \/ ActivateUser
  \/ Tick
  \/ Deliver

SpecLogin == InitLogin /\ [][NextLogin]_vars

(***************************************************************************)
(* SpecSignup: signups of new and of taken emails, as student, teacher,    *)
(* admin or an unknown role, with the role data complete, partial, taken   *)
(* or absent, every store operation succeeding or one of them failing.     *)
(***************************************************************************)
NextSignup ==
  \/ Signup
  \/ Deliver

SpecSignup == Init /\ [][NextSignup]_vars

(***************************************************************************)
(* SpecSessions: the validation of one student's sessions array, applied   *)
(* to every array of at most MaxSessions sessions.                         *)
(***************************************************************************)
SessionsInputs ==
  SeqsUpTo({Session(n, st) : n \in 0..(MaxSessions + 1), st \in {PRESENT, ABSENT, "late"}},
           MaxSessions)

InitSessions ==
  /\ InitData
  /\ probe \in {<<[sessions |-> ss, numSessions |-> n, result |-> "pending"]>> :
                  ss \in SessionsInputs, n \in 1..(MaxSessions + 1)}

ValidateSessions ==
  /\ probe # <<>>
  /\ probe[1].result = "pending"
  /\ probe' = <<[probe[1] EXCEPT !.result = validateSessions(probe[1].sessions,
                                                             probe[1].numSessions)]>>
  /\ UNCHANGED <<classSections, students, attendanceRecords, now, response, inflight, users, teachers>>

NextSessions == ValidateSessions

SpecSessions == InitSessions /\ [][NextSessions]_vars

(***************************************************************************)
(* The properties.                                                         *)
(***************************************************************************)
IsOwner(record, user) ==
  \E t \in TeacherProfiles : t.userId = user /\ t.id = record.teacherId

\* C1: once a record is finalized, an editAttendanceRecord request of the
\* record's own teacher is answered 400 AlreadyFinalized, whatever the patch,
\* and changes no field of any stored record.
C1_FinalizedRecordRejectsEdit ==
  [][\A r \in attendanceRecords :
       (/\ r.isFinalized
        /\ response = NoResponse
        /\ response'.op = "editAttendanceRecord"
        /\ response'.target = r.recordId
        /\ IsOwner(r, response'.user))
       => /\ response'.status = 400
          /\ response'.kind = "AlreadyFinalized"
          /\ attendanceRecords' = attendanceRecords]_vars

C1_Witness ==
  /\ response.op = "editAttendanceRecord"
  /\ response.kind = "AlreadyFinalized"
  /\ \E r \in attendanceRecords :
       r.isFinalized /\ r.recordId = response.target /\ IsOwner(r, response.user)

\* C2: isFinalized is one-way: a record is created with isFinalized false,
\* and no operation of any role turns a finalized record back into an
\* unfinalized one.
C2_FinalizationOneWay ==
  [][/\ \A r \in attendanceRecords :
          r.isFinalized =>
            \A r2 \in attendanceRecords' : r2.recordId = r.recordId => r2.isFinalized
     /\ \A r2 \in attendanceRecords' :
          (\A r \in attendanceRecords : r.recordId # r2.recordId) => ~r2.isFinalized]_vars

\* A finalized record, its section deleted by the admin since, and an edit
\* of it just refused.
C2_Witness ==
  /\ response.op = "editAttendanceRecord"
  /\ response.status = 400
  /\ \E r \in attendanceRecords :
       /\ r.isFinalized
       /\ r.recordId = response.target
       /\ ~classSections[r.classSectionId].isActive

\* C5: in every stored record, every student entry has
\* totalPresent + totalAbsent = numSessions, and totalPresent is the number
\* of its sessions marked present.
C5_TotalsConsistent ==
  \A r \in attendanceRecords : \A i \in 1..Len(r.attendance) :
    /\ r.attendance[i].totalPresent + r.attendance[i].totalAbsent = r.numSessions
    /\ r.attendance[i].totalPresent =
         Cardinality({k \in 1..Len(r.attendance[i].sessions) :
                        r.attendance[i].sessions[k].status = PRESENT})

C5_Witness ==
  /\ response.op = "editAttendanceRecord"
  /\ response.kind = "Updated"
  /\ \E r \in attendanceRecords :
       /\ r.recordId = response.target
       /\ r.lastModifiedBy # NoUser
       /\ r.numSessions = 2
       /\ \E i \in 1..Len(r.attendance) : r.attendance[i].totalPresent = 1

\* C6: in every stored record, the session numbers of every student entry
\* are exactly 1..numSessions, each once.
C6_SessionNumbersExact ==
  \A r \in attendanceRecords : \A i \in 1..Len(r.attendance) :
    /\ Len(r.attendance[i].sessions) = r.numSessions
    /\ {r.attendance[i].sessions[k].sessionNumber : k \in 1..Len(r.attendance[i].sessions)}
         = 1..r.numSessions

C6_Witness ==
  \E r \in attendanceRecords :
    /\ r.numSessions = 2
    /\ r.lastModifiedBy # NoUser
    /\ \E i \in 1..Len(r.attendance) :
         /\ r.attendance[i].sessions[1].sessionNumber = 2
         /\ r.attendance[i].sessions[2].sessionNumber = 1

MinutesOfDay == 24 * 60

IsPermutation(sessions, numSessions) ==
  /\ Len(sessions) = numSessions
  /\ \A m \in 1..numSessions :
       Cardinality({k \in 1..Len(sessions) : sessions[k].sessionNumber = m}) = 1

\* C4: a sessions array (of valid statuses) is accepted if and only if its
\* session numbers are a permutation of 1..numSessions; an array with a
\* duplicate number, a missing number, an out-of-range number or a length
\* other than numSessions is rejected with a validation error.
C4_SessionsPermutation ==
  (probe # <<>> /\ probe[1].result # "pending") =>
    LET sessions == probe[1].sessions
        n == probe[1].numSessions
        numbers == [k \in 1..Len(sessions) |-> sessions[k].sessionNumber]
        validStatuses == \A k \in 1..Len(sessions) : sessions[k].status \in {PRESENT, ABSENT}
        rejected == probe[1].result \in {"WrongSessionCount", "InvalidSessionNumber",
                                         "InvalidStatus", "DuplicateSession", "MissingSession"}
    IN  /\ validStatuses => (probe[1].result = "ok" <=> IsPermutation(sessions, n))
        /\ probe[1].result # "ok" <=> rejected
        /\ (\E j, k \in 1..Len(sessions) : j # k /\ numbers[j] = numbers[k]) => rejected
        /\ (\E m \in 1..n : \A k \in 1..Len(sessions) : numbers[k] # m) => rejected
        /\ (\E k \in 1..Len(sessions) : numbers[k] < 1 \/ numbers[k] > n) => rejected
        /\ Len(sessions) # n => rejected

C4_Witness ==
  /\ probe # <<>>
  /\ probe[1].result = "ok"
  /\ probe[1].numSessions = 3
  /\ probe[1].sessions[1].sessionNumber = 3
  /\ probe[1].sessions[2].sessionNumber = 1

\* C7: in every stored record, sessionBreakdown has numSessions entries
\* numbered 1..numSessions in order, the first starting at the record's
\* startTime, each ending 45 minutes (on the clock) after it starts, and
\* each starting when the one before ends.
C7_BreakdownContiguous ==
  \A r \in attendanceRecords :
    LET b == r.sessionBreakdown
    IN  /\ Len(b) = r.numSessions
        /\ \A i \in 1..Len(b) :
             /\ b[i].sessionNumber = i
             /\ (toMinutes(b[i].endTime) - toMinutes(b[i].startTime)) % MinutesOfDay = 45
             /\ b[i].startTime = IF i = 1 THEN r.startTime ELSE b[i - 1].endTime

C7_Witness ==
  /\ response.op = "editAttendanceRecord"
  /\ response.kind = "Updated"
  /\ \E r \in attendanceRecords :
       /\ r.recordId = response.target
       /\ r.numSessions = 3
       /\ r.startTime = <<23, 30>>
       /\ r.sessionBreakdown[3].endTime = <<1, 45>>

\* What markAttendance requires of a request, read off the record it stored
\* and the state it ran in.
RecordPassesChecks(r) ==
  /\ r.numSessions \in 1..10
  /\ r.startTime[1] \in 0..23 /\ r.startTime[2] \in 0..59
  /\ r.endTime[1] \in 0..23 /\ r.endTime[2] \in 0..59
  /\ r.endTime[1] * 60 + r.endTime[2] - (r.startTime[1] * 60 + r.startTime[2])
       >= r.numSessions * 45
  /\ r.endTime[1] * 60 + r.endTime[2] > r.startTime[1] * 60 + r.startTime[2]
  /\ Len(r.attendance) > 0
  /\ r.classSectionId \in DOMAIN classSections
  /\ classSections[r.classSectionId].isActive
  /\ classSections[r.classSectionId].teacherId = r.teacherId
  /\ r.date \in 0..now
  /\ \A i \in 1..Len(r.attendance) :
       LET e == r.attendance[i]
       IN  /\ e.studentId \in DOMAIN students
           /\ \E j \in 1..Len(students[e.studentId].enrolledSubjects) :
                students[e.studentId].enrolledSubjects[j].subjectId
                  = classSections[r.classSectionId].subjectId
           /\ \E j \in 1..Len(classSections[r.classSectionId].students) :
                classSections[r.classSectionId].students[j].studentId = e.studentId
           /\ IsPermutation(e.sessions, r.numSessions)
           /\ \A k \in 1..Len(e.sessions) : e.sessions[k].status \in {PRESENT, ABSENT}

\* C3: creation is atomic: a markAttendance request either passes every
\* check and stores exactly one record, the one it describes, or is answered
\* with an error and leaves the stored records as they were.
C3_CreationAtomic ==
  [][(response = NoResponse /\ response'.op = "markAttendance") =>
       IF response'.status = 201
       THEN \E r \in attendanceRecords' :
              /\ r \notin attendanceRecords
              /\ attendanceRecords' = attendanceRecords \cup {r}
              /\ r.recordId = response'.target
              /\ IsOwner(r, response'.user)
              /\ RecordPassesChecks(r)
       ELSE /\ response'.status >= 400
            /\ attendanceRecords' = attendanceRecords]_vars

C3_Witness ==
  /\ response.op = "markAttendance"
  /\ response.status = 400
  /\ response.kind = "InvalidStatus"
  /\ attendanceRecords = {}
  /\ \E c \in DOMAIN classSections : Len(classSections[c].students) = 2

\* C8: markAttendance rejects a student who is not on the section's roster
\* or is on it only as withdrawn or transferred: every student named by a
\* newly stored record is an active member of the roster.
C8_OnlyActiveRosterMarked ==
  [][\A r \in attendanceRecords' \ attendanceRecords :
       \A i \in 1..Len(r.attendance) :
         \E j \in 1..Len(classSections[r.classSectionId].students) :
           /\ classSections[r.classSectionId].students[j].studentId = r.attendance[i].studentId
           /\ classSections[r.classSectionId].students[j].status = "active"]_vars

\* C9: once a section is deleted (isActive false), markAttendance for it and
\* editAttendanceRecord on its records are rejected and change nothing: the
\* records of an inactive section stay as they are.
C9_InactiveSectionFrozen ==
  [][\A c \in DOMAIN classSections :
       ~classSections[c].isActive =>
         {r \in attendanceRecords' : r.classSectionId = c}
           = {r \in attendanceRecords : r.classSectionId = c}]_vars

NotEnrolledIn(studentId, subjectId) ==
  \A j \in 1..Len(students[studentId].enrolledSubjects) :
    students[studentId].enrolledSubjects[j].subjectId # subjectId

C10_Rejects ==
  response = NoResponse =>
    \A s \in DOMAIN students, c \in DOMAIN classSections :
      (classSections[c].isActive /\ NotEnrolledIn(s, classSections[c].subjectId)) =>
        \A st \in ATTENDANCE_STATUS :
          markAttendanceChecks("ut1", c, <<0>>, GoodStartTime, GoodEndTime, 1,
            <<[studentId |-> s, sessions |-> <<[sessionNumber |-> 1, status |-> st]>>]>>,
            Suffix) = <<400, "NotEnrolled">>

\* C10: markAttendance answers 400 NotEnrolled to a request naming a student
\* whose enrolledSubjects lacks the section's subject, and stores no record
\* for it: every student of a newly stored record is enrolled in the subject.
C10_NotEnrolledRejected ==
  /\ []C10_Rejects
  /\ [][/\ \A r \in attendanceRecords' \ attendanceRecords :
            \A i \in 1..Len(r.attendance) :
              ~NotEnrolledIn(r.attendance[i].studentId, r.subjectId)
         /\ (response = NoResponse /\ response'.kind = "NotEnrolled") =>
              /\ response'.status = 400
              /\ attendanceRecords' = attendanceRecords
              /\ \E s \in DOMAIN students, c \in DOMAIN classSections :
                   NotEnrolledIn(s, classSections[c].subjectId)]_vars

C10_Witness ==
  /\ response.op = "markAttendance"
  /\ response.kind = "NotEnrolled"
  /\ attendanceRecords = {}
  /\ students["s1"].enrolledSubjects = <<>>

C11_Refuses ==
  response = NoResponse =>
    \A u \in Users, c \in DOMAIN classSections :
      (/\ TeacherFindOne(u) # {}
       /\ classSections[c].isActive
       /\ classSections[c].teacherId \notin TeacherFindOne(u)) =>
        markAttendanceChecks(u, c, <<0>>, GoodStartTime, GoodEndTime, 1, AllPresent(1), Suffix)
          = <<403, "NotAssigned">>

\* C11: markAttendance stores a record only when the acting teacher is, at
\* the time of the call, the teacher assigned to the class section; a request
\* of any other teacher for the section is answered 403 and stores nothing.
C11_OnlyAssignedTeacherMarks ==
  /\ []C11_Refuses
  /\ [][(response = NoResponse /\ response'.op = "markAttendance") =>
          /\ response'.status = 201 =>
               \E r \in attendanceRecords' \ attendanceRecords :
                 /\ r.recordId = response'.target
                 /\ \E t \in TeacherProfiles :
                      /\ t.userId = response'.user
                      /\ t.id = classSections[r.classSectionId].teacherId
                      /\ t.id = r.teacherId
          /\ response'.kind = "NotAssigned" =>
               /\ response'.status = 403
               /\ attendanceRecords' = attendanceRecords]_vars

\* The section's first teacher refused after the section went to another.
C11_Witness ==
  /\ response.op = "markAttendance"
  /\ response.user = "ut1"
  /\ response.status = 403
  /\ classSections["c1"].teacherId = "t2"
  /\ attendanceRecords = {}

\* C12: an editAttendanceRecord request naming a recordId no record has is
\* answered 404, one made by a teacher other than the record's teacher is
\* answered 403, and in both cases, whether or not the record is finalized,
\* the stored records stay as they were.
C12_NotFoundAndForbidden ==
  [][(response = NoResponse /\ response'.op = "editAttendanceRecord") =>
       /\ (\A r \in attendanceRecords : r.recordId # response'.target) =>
            /\ response'.status = 404
            /\ attendanceRecords' = attendanceRecords
       /\ \A r \in attendanceRecords :
            (/\ r.recordId = response'.target
             /\ \E t \in TeacherProfiles : t.userId = response'.user /\ t.id # r.teacherId) =>
              /\ response'.status = 403
              /\ response'.kind = "NotRecordOwner"
              /\ attendanceRecords' = attendanceRecords]_vars

\* A teacher other than the record's refused on a finalized record.
C12_Witness ==
  /\ response.op = "editAttendanceRecord"
  /\ response.status = 403
  /\ \E r \in attendanceRecords :
       /\ r.recordId = response.target
       /\ r.isFinalized
       /\ ~IsOwner(r, response.user)

\* C13: every accepted editAttendanceRecord is made by the teacher who is,
\* at the time of the edit, the teacher assigned to the record's class
\* section, also after updateClassSection gave the section to another.
C13_OnlyAssignedTeacherEdits ==
  [][(/\ response = NoResponse
      /\ response'.op = "editAttendanceRecord"
      /\ response'.status = 200) =>
       \E r \in attendanceRecords :
         /\ r.recordId = response'.target
         /\ \E t \in TeacherProfiles :
              /\ t.userId = response'.user
              /\ t.id = classSections[r.classSectionId].teacherId]_vars

\* C14: after every accepted editAttendanceRecord, whatever the patch
\* carries, the record's lastModifiedBy is the acting user and its
\* lastModifiedAt is the time of the edit.
C14_EveryEditAudited ==
  (response.op = "editAttendanceRecord" /\ response.status = 200) =>
    \E r \in attendanceRecords :
      /\ r.recordId = response.target
      /\ r.lastModifiedBy = response.user
      /\ r.lastModifiedAt = now

\* C15: a record is created with markedBy the acting teacher and markedAt
\* the time of creation, and no later step changes either field of it.
C15_MarkedFieldsSetOnce ==
  [][/\ \A r \in attendanceRecords :
          \E r2 \in attendanceRecords' :
            /\ r2.recordId = r.recordId
            /\ r2.markedBy = r.markedBy
            /\ r2.markedAt = r.markedAt
     /\ \A r2 \in attendanceRecords' :
          (\A r \in attendanceRecords : r.recordId # r2.recordId) =>
            /\ response'.op = "markAttendance"
            /\ r2.markedAt = now
            /\ \E t \in TeacherProfiles : t.userId = response'.user /\ t.id = r2.markedBy]_vars

\* A record marked on day 0 whose attendance was edited a day later.
C15_Witness ==
  /\ response.op = "editAttendanceRecord"
  /\ response.status = 200
  /\ now > 0
  /\ \E r \in attendanceRecords :
       /\ r.recordId = response.target
       /\ r.markedAt = 0
       /\ r.markedBy = "t1"
       /\ r.lastModifiedBy = "ut1"
       /\ r.lastModifiedAt = now

\* C16: every stored record, also after an edit of its startTime or
\* endTime, has endTime after startTime and at least numSessions * 45
\* minutes between them.
C16_TimesStayValid ==
  \A r \in attendanceRecords :
    /\ r.endTime[1] * 60 + r.endTime[2] > r.startTime[1] * 60 + r.startTime[2]
    /\ r.endTime[1] * 60 + r.endTime[2] - (r.startTime[1] * 60 + r.startTime[2])
         >= r.numSessions * 45

\* C17: an editAttendanceRecord whose patch gives a student a session array
\* that repeats a session number or omits one of 1..numSessions is rejected
\* and leaves the stored records as they were.
C17_EditRejectsDuplicateOrMissing ==
  [][\A r \in attendanceRecords :
       (/\ response = NoResponse
        /\ response'.op = "editAttendanceRecord"
        /\ response'.target = r.recordId
        /\ \E k \in 1..Len(probe[1].attendance) :
             LET sessions == probe[1].attendance[k].sessions
                 numbers == {sessions[j].sessionNumber : j \in 1..Len(sessions)}
             IN  \/ Cardinality(numbers) # Len(sessions)
                 \/ \E n \in 1..r.numSessions : n \notin numbers) =>
         /\ response'.status >= 400
         /\ attendanceRecords' = attendanceRecords]_vars

\* C20: an editAttendanceRecord answered with an error (not found,
\* forbidden, finalized, bad time format, or an entry of the patch the model
\* method rejects, wherever it stands in the patch) stores nothing: the
\* records are as they were before the request.
C20_FailedEditStoresNothing ==
  [][(response = NoResponse /\ response'.op = "editAttendanceRecord") =>
       /\ response'.status = 200 \/ response'.status >= 400
       /\ response'.status >= 400 => attendanceRecords' = attendanceRecords]_vars

\* A two-student patch refused for its second entry after its first entry
\* changed the document in memory; the stored record has none of it.
C20_Witness ==
  /\ response.op = "editAttendanceRecord"
  /\ response.status = 400
  /\ Len(probe[1].attendance) = 2
  /\ \E r \in attendanceRecords :
       /\ r.recordId = response.target
       /\ r.lastModifiedBy = NoUser
       /\ r.attendance[1].sessions[1].status = PRESENT
       /\ updateAttendance(r, probe[1].attendance, response.user).kind = response.kind
       /\ updateAttendance(r, probe[1].attendance, response.user).record
            .attendance[1].sessions[1].status = ABSENT

\* C18: no two stored records have the same recordId: a markAttendance
\* whose insert meets a stored record with its recordId, also when the two
\* creations ran concurrently, is answered 409 and leaves the stored records
\* as they were; otherwise the insert stores the prepared record and nothing
\* else changes.
C18_RecordIdUnique ==
  /\ [](\A r1, r2 \in attendanceRecords : r1.recordId = r2.recordId => r1 = r2)
  /\ [][\A i \in 1..Len(inflight) :
          (inflight[i].op = "create" /\ inflight' = RemoveAt(inflight, i)) =>
            IF \E r \in attendanceRecords : r.recordId = inflight[i].record.recordId
            THEN /\ response'.op = "markAttendance"
                 /\ response'.status = 409
                 /\ attendanceRecords' = attendanceRecords
            ELSE /\ response'.status = 201
                 /\ attendanceRecords' = attendanceRecords \cup {inflight[i].record}]_vars

\* A creation refused with 409 while another creation with the recordId of
\* the stored record, and marks other than the stored ones, is still
\* suspended.
C18_Witness ==
  /\ response.op = "markAttendance"
  /\ response.status = 409
  /\ \E r \in attendanceRecords : \E i \in 1..Len(inflight) :
       /\ inflight[i].op = "create"
       /\ inflight[i].record.recordId = r.recordId
       /\ inflight[i].record.attendance # r.attendance

\* C19: in every interleaving of concurrent edits of a record, once the
\* stored record is finalized no later save changes its attendance, its
\* startTime, its endTime or its sessionBreakdown.
C19_FinalizedFrozenUnderConcurrency ==
  [][\A r \in attendanceRecords :
       r.isFinalized =>
         \A r2 \in attendanceRecords' :
           r2.recordId = r.recordId =>
             /\ r2.attendance = r.attendance
             /\ r2.startTime = r.startTime
             /\ r2.endTime = r.endTime
             /\ r2.sessionBreakdown = r.sessionBreakdown]_vars

\* C21: an editAttendanceRecord leaves, in every stored record, the
\* recordId, subject, teacher, class section, date, semester, numSessions and
\* marking fields as they were, and the same students with the same session
\* numbers in the same order: only statuses, totals, times, breakdown,
\* isFinalized and the lastModified fields can differ.
C21_EditFrame ==
  [][(response = NoResponse /\ response'.op = "editAttendanceRecord") =>
       /\ Cardinality(attendanceRecords') = Cardinality(attendanceRecords)
       /\ \A r \in attendanceRecords :
            \E r2 \in attendanceRecords' :
              /\ r2.recordId = r.recordId
              /\ r2.subjectId = r.subjectId
              /\ r2.teacherId = r.teacherId
              /\ r2.classSectionId = r.classSectionId
              /\ r2.date = r.date
              /\ r2.semester = r.semester
              /\ r2.numSessions = r.numSessions
              /\ r2.markedBy = r.markedBy
              /\ Len(r2.attendance) = Len(r.attendance)
              /\ \A i \in 1..Len(r.attendance) :
                   /\ r2.attendance[i].studentId = r.attendance[i].studentId
                   /\ Len(r2.attendance[i].sessions) = Len(r.attendance[i].sessions)
                   /\ \A j \in 1..Len(r.attendance[i].sessions) :
                        r2.attendance[i].sessions[j].sessionNumber
                          = r.attendance[i].sessions[j].sessionNumber]_vars

\* An accepted edit that turned one of two sessions to absent.
C21_Witness ==
  /\ response.op = "editAttendanceRecord"
  /\ response.status = 200
  /\ \E r \in attendanceRecords :
       /\ r.recordId = response.target
       /\ r.numSessions = 2
       /\ r.lastModifiedBy = "ut1"
       /\ r.attendance[1].sessions[2].status = ABSENT
       /\ r.attendance[1].totalPresent = 1

\* C22: after every deleteUser, whatever store operation failed, a student
\* or teacher account and its profile either both exist or are both gone.
C22_UserAndProfileTogether ==
  /\ \A s \in StudentIds : s \in DOMAIN students <=> StudentUserId[s] \in DOMAIN users
  /\ \A p \in TeacherProfiles : p.id \in DOMAIN teachers <=> p.userId \in DOMAIN users

\* C23: a createClassSection that is not answered 201, in particular one
\* whose teacher.save() failed after the section was stored, leaves no new
\* class section and leaves the teachers' assignedSubjects as they were; one
\* answered 201 has stored one section and the assignment of its teacher.
C23_CreateSectionCompensated ==
  [][(response = NoResponse /\ response'.op = "createClassSection") =>
       IF response'.status = 201
       THEN \E c \in DOMAIN classSections' \ DOMAIN classSections :
              /\ DOMAIN classSections' = DOMAIN classSections \cup {c}
              /\ \A d \in DOMAIN classSections : classSections'[d] = classSections[d]
              /\ \E i \in 1..Len(teachers'[classSections'[c].teacherId].assignedSubjects) :
                   LET a == teachers'[classSections'[c].teacherId].assignedSubjects[i]
                   IN  /\ a.subjectId = classSections'[c].subjectId
                       /\ a.section = classSections'[c].sectionName
       ELSE /\ response'.status >= 400
            /\ classSections' = classSections
            /\ teachers' = teachers]_vars

\* A creation rolled back after an earlier one had succeeded.
C23_Witness ==
  /\ response.op = "createClassSection"
  /\ response.kind = "RolledBack"
  /\ Cardinality(DOMAIN classSections) = 2
  /\ \E t \in DOMAIN teachers : Len(teachers[t].assignedSubjects) = 2

SectionKey(c) ==
  <<classSections[c].subjectId, classSections[c].teacherId, classSections[c].semester,
    classSections[c].branch, classSections[c].sectionName>>

\* C25: no two stored class sections have the same (subject, teacher,
\* semester, branch, sectionName), also after updateClassSection changed a
\* section's teacher; a creation or an update that would give two sections
\* the same tuple is answered with an error and leaves the sections as they
\* were.
C25_SectionTupleUnique ==
  /\ [](\A c, d \in DOMAIN classSections : SectionKey(c) = SectionKey(d) => c = d)
  /\ [][(response = NoResponse /\ response'.kind \in {"CreateFailed", "DuplicateKey"}) =>
          /\ response'.status >= 400
          /\ classSections' = classSections]_vars

\* An update refused because the section's new teacher already has a section
\* with the same subject, semester, branch and name.
C25_Witness ==
  /\ response.op = "updateClassSection"
  /\ response.status = 409
  /\ \E c, d \in DOMAIN classSections :
       /\ c # d
       /\ classSections[c].teacherId # classSections[d].teacherId
       /\ classSections[c].sectionName = classSections[d].sectionName

\* C24: over addStudentToSection, bulkAddStudentsToSection and
\* removeStudentFromSection a roster holds at most one entry per student and
\* never loses an entry: an entry stays at its place for its student, a
\* removal only makes it withdrawn or transferred with withdrawnAt set, an
\* add only makes it active again with withdrawnAt cleared, and an entry that
\* is new is active.
C24_RosterSoftDelete ==
  /\ [](\A c \in DOMAIN classSections : \A i, j \in 1..Len(classSections[c].students) :
          classSections[c].students[i].studentId = classSections[c].students[j].studentId
            => i = j)
  /\ [][\A c \in DOMAIN classSections :
          LET old == classSections[c].students
              new == classSections'[c].students
          IN  /\ Len(new) >= Len(old)
              /\ \A i \in 1..Len(old) :
                   /\ new[i].studentId = old[i].studentId
                   /\ \/ new[i] = old[i]
                      \/ /\ response'.op = "removeStudentFromSection"
                         /\ new[i].status \in {"withdrawn", "transferred"}
                         /\ new[i].withdrawnAt = now
                      \/ /\ response'.op \in {"addStudentToSection", "bulkAddStudentsToSection"}
                         /\ old[i].status # "active"
                         /\ new[i].status = "active"
                         /\ new[i].withdrawnAt = NoInstant
              /\ \A i \in (Len(old) + 1)..Len(new) :
                   /\ response'.op \in {"addStudentToSection", "bulkAddStudentsToSection"}
                   /\ new[i].status = "active"
                   /\ new[i].withdrawnAt = NoInstant]_vars

\* A bulk add has answered with one student of the roster active and another,
\* removed before, still on the roster as withdrawn.
C24_Witness ==
  /\ response.op = "bulkAddStudentsToSection"
  /\ response.status = 200
  /\ \E c \in DOMAIN classSections :
       /\ Len(classSections[c].students) = 2
       /\ classSections[c].students[1].status = "withdrawn"
       /\ classSections[c].students[1].withdrawnAt # NoInstant
       /\ classSections[c].students[2].status = "active"

\* C26: in every stored record, as created and as edited, the
\* attendancePercentage of every student entry is totalPresent / numSessions
\* * 100 rounded to two decimals (the hundredth nearest to it), so it lies
\* between 0 and 100; sessions [{1, present}, {2, absent}] of a class of two
\* sessions give totalPresent 1, totalAbsent 1 and 50.00.
C26_PercentageRounded ==
  \A r \in attendanceRecords : \A i \in 1..Len(r.attendance) :
    LET e == r.attendance[i]
        exact == 10000 * e.totalPresent
    IN  /\ e.attendancePercentage \in 0..10000
        /\ 2 * (e.attendancePercentage * r.numSessions - exact) <= r.numSessions
        /\ 2 * (exact - e.attendancePercentage * r.numSessions) <= r.numSessions
        /\ (r.numSessions = 2 /\ e.sessions = <<Session(1, PRESENT), Session(2, ABSENT)>>)
             => /\ e.totalPresent = 1
                /\ e.totalAbsent = 1
                /\ e.attendancePercentage = 5000

\* An edit has left two of three sessions present: 66.67.
C26_Witness ==
  /\ response.op = "editAttendanceRecord"
  /\ response.kind = "Updated"
  /\ \E r \in attendanceRecords :
       /\ r.recordId = response.target
       /\ r.lastModifiedBy # NoUser
       /\ r.numSessions = 3
       /\ \E i \in 1..Len(r.attendance) :
            /\ r.attendance[i].totalPresent = 2
            /\ r.attendance[i].attendancePercentage = 6667

\* The sum of f over the finite set S.
RECURSIVE Sum(_, _)
Sum(f(_), S) ==
  IF S = {} THEN 0 ELSE LET x == CHOOSE x \in S : TRUE IN f(x) + Sum(f, S \ {x})

\* The stored records of the subject, within the date range asked for, that
\* have an entry of the student.
RecordsOf(studentId, subjectId, startDate, endDate) ==
  {r \in attendanceRecords :
     /\ r.subjectId = subjectId
     /\ \E i \in 1..Len(r.attendance) : r.attendance[i].studentId = studentId
     /\ startDate # NoDate => r.date >= startDate[1]
     /\ endDate # NoDate => r.date <= endDate[1]}

\* C27: the summary of getAttendanceBySubject is the fold over the stored
\* records of the subject, within the date range asked for, that have an
\* entry of the student, and over no other record: totalClasses is their
\* number, totalSessions the sum of their numSessions, presentCount and
\* absentCount the sums of the student's totals in them, presentCount +
\* absentCount = totalSessions, and the percentage is presentCount /
\* totalSessions * 100 rounded to two decimals, 0 when there is no session;
\* records of 2 and 3 sessions with 2 and 1 present give 5 sessions, 3
\* present, 60.00.
C27_SummaryFolds ==
  (response.op = "getAttendanceBySubject" /\ response.status = 200) =>
    LET student == CHOOSE st \in DOMAIN students : students[st].userId = response.user
        matching == RecordsOf(student, "sub1", response.target[1], response.target[2])
        entry(r) == r.attendance[findStudentAttendance(r, student)]
        NumSessionsOf(r) == r.numSessions
        PresentOf(r) == entry(r).totalPresent
        AbsentOf(r) == entry(r).totalAbsent
        sm == response.summary
    IN  /\ sm.totalClasses = Cardinality(matching)
        /\ sm.totalSessions = Sum(NumSessionsOf, matching)
        /\ sm.presentCount = Sum(PresentOf, matching)
        /\ sm.absentCount = Sum(AbsentOf, matching)
        /\ sm.presentCount + sm.absentCount = sm.totalSessions
        /\ sm.totalSessions = 0 => sm.attendancePercentage = 0
        /\ 2 * (sm.attendancePercentage * sm.totalSessions - 10000 * sm.presentCount)
              <= sm.totalSessions
        /\ 2 * (10000 * sm.presentCount - sm.attendancePercentage * sm.totalSessions)
              <= sm.totalSessions
        /\ {<<r.numSessions, entry(r).totalPresent>> : r \in matching} = {<<2, 2>>, <<3, 1>>}
             => /\ sm.totalSessions = 5
                /\ sm.presentCount = 3
                /\ sm.attendancePercentage = 6000

\* s1 asks with two records stored, of 2 and 3 sessions with 2 and 1
\* present, while s2 has an entry in none of them.
C27_Witness ==
  /\ response.op = "getAttendanceBySubject"
  /\ response.user = "us1"
  /\ response.kind = "AttendanceRetrieved"
  /\ response.summary.totalSessions = 5
  /\ response.summary.presentCount = 3
  /\ response.summary.attendancePercentage = 6000
  /\ Cardinality(attendanceRecords) = 2
  /\ RecordsOf("s2", "sub1", NoDate, NoDate) = {}

\* C28: a record is created only by a markAttendance answered 201 whose
\* numSessions is in 1..10, whose times are HH:MM times, whose endTime is
\* after its startTime and whose duration is at least numSessions * 45
\* minutes; in the record as created the last session of sessionBreakdown
\* ends at or before endTime and every session ends later on the clock than
\* it starts (none crosses midnight).
C28_CreatedWithinClassTime ==
  [][\A r \in attendanceRecords' :
       r.recordId \notin {q.recordId : q \in attendanceRecords} =>
         LET b == r.sessionBreakdown
             startMinutes == r.startTime[1] * 60 + r.startTime[2]
             endMinutes == r.endTime[1] * 60 + r.endTime[2]
         IN  /\ response'.op = "markAttendance"
             /\ response'.status = 201
             /\ r.numSessions \in 1..10
             /\ r.startTime[1] \in 0..23 /\ r.startTime[2] \in 0..59
             /\ r.endTime[1] \in 0..23 /\ r.endTime[2] \in 0..59
             /\ endMinutes > startMinutes
             /\ endMinutes - startMinutes >= r.numSessions * 45
             /\ Len(b) = r.numSessions
             /\ b[Len(b)].endTime[1] * 60 + b[Len(b)].endTime[2] <= endMinutes
             /\ \A i \in 1..Len(b) :
                  b[i].endTime[1] * 60 + b[i].endTime[2]
                    > b[i].startTime[1] * 60 + b[i].startTime[2]]_vars

\* A class of three sessions created with the whole of 09:00-12:00, and so
\* with its last session ending at 11:15.
C28_Witness ==
  /\ response.op = "markAttendance"
  /\ response.status = 201
  /\ \E r \in attendanceRecords :
       /\ r.recordId = response.target
       /\ r.lastModifiedBy = NoUser
       /\ r.numSessions = 3
       /\ r.startTime = <<9, 0>> /\ r.endTime = <<12, 0>>
       /\ r.sessionBreakdown[3].endTime = <<11, 15>>

\* C29: a markAttendance whose date does not parse, or whose date is a day
\* after the current day, is answered with an error and stores nothing; the
\* assigned teacher's request for the current day or for a day before it is
\* not refused for its date, and when the class has room for its sessions
\* its record is stored under that day.
C29_DateNotInFuture ==
  [][(response = NoResponse /\ response'.op = "markAttendance") =>
       LET date == probe[1]
       IN  /\ (date[1] < 0 \/ date[1] > now) =>
                /\ response'.status >= 400
                /\ attendanceRecords' = attendanceRecords
                /\ response'.user = "ut1" =>
                     response'.kind \in {"InvalidDate", "FutureDate", "DurationTooShort"}
           /\ (date[1] >= 0 /\ date[1] <= now) =>
                /\ response'.kind \notin {"InvalidDate", "FutureDate"}
                /\ (response'.user = "ut1" /\ response'.kind # "DurationTooShort") =>
                     /\ response'.status \in {201, 409}
                     /\ \E r \in attendanceRecords' : r.date = date[1]]_vars

\* A class of the day before marked today.
C29_Witness ==
  /\ response.op = "markAttendance"
  /\ response.status = 201
  /\ probe[1] = <<0>>
  /\ now = 1
  /\ \E r \in attendanceRecords :
       r.recordId = response.target /\ r.date = 0 /\ r.markedAt = 1

\* A request to an admin route with the token under watch.
AdminRequestWithProbe ==
  /\ response = NoResponse
  /\ \/ deleteUserRoute(probe[1])
     \/ deactivateUserRoute(probe[1])
     \/ activateUserRoute(probe[1])
     \/ updateClassSectionRoute(probe[1])

\* C30: a request to an admin route whose token is not a valid access token
\* of a stored, active user with the role admin is answered 401 or 403 and
\* changes nothing in the store; without a token the answer is 401, with the
\* valid token of a stored student it is 403.
C30_AdminRoutesGuarded ==
  [][AdminRequestWithProbe =>
       LET token == probe[1]
           known == token # NoToken /\ token.valid /\ token.userId \in DOMAIN users
           admitted == /\ known
                       /\ users[token.userId].isActive
                       /\ users[token.userId].role = "admin"
       IN  /\ ~admitted =>
                /\ response'.status \in {401, 403}
                /\ UNCHANGED <<classSections, students, attendanceRecords, users, teachers>>
           /\ token = NoToken => response'.status = 401
           /\ (known /\ users[token.userId].role = "student") => response'.status = 403]_vars

\* The active student's token refused by adminOnly, after the administrator
\* has deleted a teacher.
C30_Witness ==
  /\ probe[1] = [userId |-> "us1", valid |-> TRUE]
  /\ response.user = "us1"
  /\ response.status = 403
  /\ response.kind = "AccessDenied"
  /\ "ut1" \notin DOMAIN users
  /\ "us1" \in DOMAIN users /\ users["us1"].isActive

\* The session updates a patch has for a student, in the order of the patch.
RECURSIVE UpdatesFor(_, _)
UpdatesFor(attendance, studentId) ==
  IF attendance = <<>> THEN <<>>
  ELSE (IF Head(attendance).studentId = studentId THEN Head(attendance).sessions ELSE <<>>)
         \o UpdatesFor(Tail(attendance), studentId)

\* The status the last update for the session number gives, or the status
\* the session had.
StatusAfter(updates, session) ==
  LET hits == {k \in 1..Len(updates) : updates[k].sessionNumber = session.sessionNumber}
  IN  IF hits = {} THEN session.status
      ELSE updates[CHOOSE k \in hits : \A h \in hits : h <= k].status

\* A patch of attendance only whose entries name student s1 and whose session
\* updates, at least one per entry, have a session number and the status
\* present or absent.
WellFormedPatch(patch) ==
  /\ patch.startTime = NoTime /\ patch.endTime = NoTime /\ patch.isFinalized = "absent"
  /\ Len(patch.attendance) > 0
  /\ \A i \in 1..Len(patch.attendance) :
       /\ patch.attendance[i].studentId = "s1"
       /\ Len(patch.attendance[i].sessions) > 0
       /\ \A k \in 1..Len(patch.attendance[i].sessions) :
            /\ patch.attendance[i].sessions[k].sessionNumber >= 1
            /\ patch.attendance[i].sessions[k].status \in ATTENDANCE_STATUS

\* C31: the owner's edit of a record that is not finalized, with a
\* well-formed attendance patch, succeeds also when the patch has updates for
\* session numbers the student's stored sessions do not have: these updates
\* are skipped, every session the student has keeps its number and gets the
\* status of the last update of the patch for it (or keeps its status), and no
\* session is added.
C31_UnknownSessionSkipped ==
  [][(response = NoResponse /\ response'.op = "editAttendanceRecord") =>
       /\ (WellFormedPatch(probe[1]) /\ response'.user = "ut1")
            => response'.kind \in {"Updated", "RecordNotFound"}
       /\ response'.kind = "Updated" =>
            \A r \in attendanceRecords : r.recordId = response'.target =>
              \E r2 \in attendanceRecords' :
                /\ r2.recordId = r.recordId
                /\ Len(r2.attendance) = Len(r.attendance)
                /\ \A i \in 1..Len(r.attendance) :
                     LET old == r.attendance[i].sessions
                         new == r2.attendance[i].sessions
                         updates == UpdatesFor(probe[1].attendance, r.attendance[i].studentId)
                     IN  /\ Len(new) = Len(old)
                         /\ \A j \in 1..Len(old) :
                              /\ new[j].sessionNumber = old[j].sessionNumber
                              /\ new[j].status = StatusAfter(updates, old[j])]_vars

\* An edit of a class of one session whose patch also had an update for
\* session 2: accepted, session 1 turned absent, no session 2.
C31_Witness ==
  /\ response.op = "editAttendanceRecord"
  /\ response.kind = "Updated"
  /\ \E i \in 1..Len(probe[1].attendance) :
       \E k \in 1..Len(probe[1].attendance[i].sessions) :
         probe[1].attendance[i].sessions[k].sessionNumber = 2
  /\ \E r \in attendanceRecords :
       /\ r.recordId = response.target
       /\ r.numSessions = 1
       /\ Len(r.attendance[1].sessions) = 1
       /\ r.attendance[1].sessions[1].status = ABSENT

\* C32: calculateStudentTotals never finds present + absent different from
\* numSessions: no response carries its error, no stored entry would raise
\* it, and no attendance patch applied to a stored record raises it.
C32_InconsistencyUnreachable ==
  /\ response.kind # "InconsistentTotals"
  /\ \A r \in attendanceRecords :
       /\ \A i \in 1..Len(r.attendance) :
            ~calculateStudentTotalsThrows(r, r.attendance[i].studentId)
       /\ \A patch \in PatchesInputs :
            updateAttendance(r, patch.attendance, "ut1").kind # "InconsistentTotals"

\* An edit has recounted a student of a class of three sessions: one
\* present, two absent.
C32_Witness ==
  /\ response.op = "editAttendanceRecord"
  /\ response.kind = "Updated"
  /\ \E r \in attendanceRecords :
       /\ r.recordId = response.target
       /\ r.numSessions = 3
       /\ r.attendance[1].totalPresent = 1
       /\ r.attendance[1].totalAbsent = 2
       /\ r.lastModifiedBy = "ut1"

Revoked(t) == verifyRefreshTokenThrows(t) \/ ~tokenExists(users[t.userId], t)

C34_LogoutRevokesToken ==
  [][/\ \A t \in probe[1] :
          (/\ response = NoResponse
           /\ response'.op = "logout"
           /\ response'.status = 200
           /\ response'.target[2] = t)
          => /\ refreshAccessTokenResult(t)'[1] = 401
             /\ \A other \in probe[1] \ {t} :
                  (other.userId = t.userId /\ refreshAccessTokenResult(other)[1] = 200)
                  => refreshAccessTokenResult(other)'[1] = 200
     /\ \A t \in probe[1] :
          Revoked(t) => /\ Revoked(t)'
                        /\ refreshAccessTokenResult(t)'[1] \in {401, 403}
                        /\ users'[t.userId].isActive => refreshAccessTokenResult(t)'[1] = 401]_vars

\* us1 logged in twice and logged out of one login: that login's refresh
\* token is gone from the account, the other one is still accepted.
C34_Witness ==
  /\ response.op = "logout"
  /\ response.status = 200
  /\ response.target[2] \in probe[1]
  /\ ~tokenExists(users[response.user], response.target[2])
  /\ \E other \in probe[1] \ {response.target[2]} :
       other.userId = response.user /\ refreshAccessTokenResult(other)[1] = 200

(***************************************************************************)
(* C35: no stored AttendanceRecord holds two attendance entries for the    *)
(* same student.                                                           *)
(***************************************************************************)
C35_OneEntryPerStudent ==
  \A r \in attendanceRecords :
    \A i, j \in 1..Len(r.attendance) :
      r.attendance[i].studentId = r.attendance[j].studentId => i = j

(***************************************************************************)
(* C36: the teacher of every stored class section has the section's        *)
(* (subject, semester, branch, sectionName) in assignedSubjects, and every *)
(* assignment a teacher holds is that of a stored section they teach.      *)
(***************************************************************************)
AssignmentOf(classSection) ==
  [subjectId |-> classSection.subjectId, semester |-> classSection.semester,
   branch |-> classSection.branch, section |-> classSection.sectionName]

C36_AssignmentsFollowSections ==
  /\ \A c \in DOMAIN classSections :
       classSections[c].teacherId \in DOMAIN teachers
         => \E i \in 1..Len(teachers[classSections[c].teacherId].assignedSubjects) :
              teachers[classSections[c].teacherId].assignedSubjects[i]
                = AssignmentOf(classSections[c])
  /\ \A t \in DOMAIN teachers :
       \A i \in 1..Len(teachers[t].assignedSubjects) :
         \E c \in DOMAIN classSections :
           /\ classSections[c].teacherId = t
           /\ AssignmentOf(classSections[c]) = teachers[t].assignedSubjects[i]

(***************************************************************************)
(* C37: every student referenced by an entry of a stored AttendanceRecord  *)
(* or by a roster entry of a class section exists as a Student profile.    *)
(***************************************************************************)
C37_ReferencedStudentsExist ==
  /\ \A r \in attendanceRecords :
       \A i \in 1..Len(r.attendance) : r.attendance[i].studentId \in DOMAIN students
  /\ \A c \in DOMAIN classSections :
       \A i \in 1..Len(classSections[c].students) :
         classSections[c].students[i].studentId \in DOMAIN students

(***************************************************************************)
(* C38: after a signup that ended in an error, every student account has   *)
(* its Student profile and every teacher account its Teacher profile.      *)
(***************************************************************************)
C38_SignupAllOrNothing ==
  (response.op = "signup" /\ response.status >= 400)
    => \A u \in DOMAIN users :
         /\ users[u].role = "student" => StudentFindOne(u) # {}
         /\ users[u].role = "teacher" => TeacherFindOne(u) # {}

====
